---- MODULE Spec2Model ----
(***************************************************************************)
(* A model of the request handlers of the community/business/jobs         *)
(* platform: manage-jobs, admin-manage (entity type jobs),                *)
(* manage-community, create-post, create-business and the signup of       *)
(* mobile-auth.                                                           *)
(* Every handler is a sequence of datastore calls; one step of the model  *)
(* is one datastore call together with the synchronous code that follows  *)
(* it up to the next call, so that requests interleave between calls as   *)
(* they do on the managed datastore.                                      *)
(***************************************************************************)
EXTENDS Integers, Sequences, FiniteSets, TLC

(***************************************************************************)
(* Bounds of the model.                                                    *)
(***************************************************************************)
MaxJobs == 1
MaxTime == 1
MaxInFlight == 2
MaxApplications == 2
MaxRows == 2

Slots == 1..MaxInFlight

(***************************************************************************)
(* JavaScript values of a request body, tagged by their type.  A string    *)
(* is a sequence of one-character strings so that trim() can be computed.  *)
(***************************************************************************)
Undef == [t |-> "undefined"]
JNull == [t |-> "null"]
JStr(s) == [t |-> "string", s |-> s]
JNum(n) == [t |-> "number", n |-> n]

RECURSIVE TrimStart(_)
TrimStart(s) ==
  IF s # <<>> /\ Head(s) = " " THEN TrimStart(Tail(s)) ELSE s

RECURSIVE TrimEnd(_)
TrimEnd(s) ==
  IF s # <<>> /\ s[Len(s)] = " " THEN TrimEnd(SubSeq(s, 1, Len(s) - 1)) ELSE s

Trim(s) == TrimEnd(TrimStart(s))

\* v?.trim(): undefined for undefined/null, the trimmed string for a string,
\* and a TypeError ("trim is not a function") for any other value.
OptTrimThrows(v) == v.t \notin {"undefined", "null", "string"}

OptTrim(v) == IF v.t = "string" THEN JStr(Trim(v.s)) ELSE Undef

\* !v
Falsy(v) ==
  \/ v.t \in {"undefined", "null"}
  \/ v.t = "string" /\ v.s = <<>>
  \/ v.t = "number" /\ v.n = 0

\* v || null
OrNull(v) == IF Falsy(v) THEN JNull ELSE v

(***************************************************************************)
(* People, session tokens and the rows of the datastore.                   *)
(***************************************************************************)
NoUser == "none"
NoToken == ""

VARIABLES
  now,               \* the clock read by new Date() and by the datastore
  focus,             \* the handler whose requests this behaviour follows
  user_sessions,     \* table user_sessions
  user_roles,        \* table user_roles
  jobs,              \* table jobs
  nextJobId,         \* the next id the datastore gives a job
  job_applications,  \* table job_applications
  nextAppId,         \* the next id the datastore gives an application
  businesses,        \* table businesses
  admin_activity_logs, \* table admin_activity_logs
  profiles,          \* table profiles
  posts,             \* table posts
  communities,       \* table communities
  community_members, \* table community_members
  community_permissions, \* table community_permissions
  community_discussions, \* table community_discussions
  user_credentials,  \* table user_credentials
  nextId,            \* the next id the datastore gives any other row
  signedUp,          \* the signups answered with success so far
  inflight,          \* the requests being handled, one per slot
  resp               \* the response sent by the last step, if it sent one

auth == <<focus, user_sessions, user_roles>>
jobsDb == <<jobs, nextJobId, job_applications, nextAppId>>
communityDb == <<communities, community_members, community_permissions,
                 community_discussions>>
feedDb == <<profiles, posts>>
vars == <<now, focus, user_sessions, user_roles, jobs, nextJobId, job_applications,
          nextAppId, businesses, admin_activity_logs, profiles, posts, communities,
          community_members, community_permissions, community_discussions,
          user_credentials, nextId, signedUp, inflight, resp>>

\* What manage-jobs never writes, and what admin-manage never writes.
notJobs == <<now, auth, businesses, admin_activity_logs, communityDb, feedDb,
             user_credentials, nextId, signedUp>>
notAdmin == <<now, auth, businesses, nextJobId, nextAppId, communityDb, feedDb,
              user_credentials, nextId, signedUp>>

Idle == [h |-> "idle"]
NoResp == [h |-> "none"]

\* The sessions that exist: one live session per user, a session of u1 that
\* was invalidated, a session of u2 that expires at time 1, and no row at all
\* for the token "tx".  A new session lasts 30 days, far longer than the
\* behaviours followed here.
InitSessions ==
  { [session_token |-> "t1", user_id |-> "u1", is_active |-> TRUE, expires_at |-> MaxTime + 30],
    [session_token |-> "t2", user_id |-> "u2", is_active |-> TRUE, expires_at |-> MaxTime + 30],
    [session_token |-> "t3", user_id |-> "u3", is_active |-> TRUE, expires_at |-> MaxTime + 30],
    [session_token |-> "ta", user_id |-> "adm", is_active |-> TRUE, expires_at |-> MaxTime + 30],
    [session_token |-> "t0", user_id |-> "u1", is_active |-> FALSE, expires_at |-> MaxTime + 30],
    [session_token |-> "te", user_id |-> "u2", is_active |-> TRUE, expires_at |-> 1] }

InitRoles == { [user_id |-> "adm", role |-> "super_admin"] }

\* The rows a handler's own session query selects (admin-manage lines 479-485).
LiveSessions(token) ==
  { r \in user_sessions : r.session_token = token /\ r.is_active /\ r.expires_at > now }

\* rpc validate_session: the user of the active, unexpired session row of the
\* token, NULL when there is none.
ValidateSession(token) ==
  IF LiveSessions(token) = {} THEN NoUser
  ELSE (CHOOSE r \in LiveSessions(token) : TRUE).user_id

\* The session check that takes the holder of any known token for its user,
\* whether the session is active or not: C6 fails under it.
SessionUser_AnySession(token) ==
  IF \E r \in user_sessions : r.session_token = token
    THEN (CHOOSE r \in user_sessions : r.session_token = token).user_id
    ELSE NoUser

\* manage-jobs lines 21-30: the session is validated only when the header is
\* present (a non-empty string).
SessionUser(token) == IF token # NoToken THEN ValidateSession(token) ELSE NoUser

\* .single(): the one row, or an error when the filter matches none (or many).
SingleError(rows) == Cardinality(rows) # 1

TheRow(rows) == CHOOSE r \in rows : TRUE

(***************************************************************************)
(* Responses.  A response carries, besides what the client receives        *)
(* (status, error, jobs, applications), the request it answers, the tables *)
(* in which the request inserted, updated or deleted a row, the users its  *)
(* inserted rows are attributed to, the message of the error it reports    *)
(* (cause), and what the                                                   *)
(* handler had read when it decided (obs), with the time (started) and the *)
(* table jobs (before) at the arrival of the request.                      *)
(***************************************************************************)
Response(q, status, error) ==
  [h |-> q.h, token |-> q.token, body |-> q.body, user |-> q.user,
   status |-> status, error |-> <<error>>, cause |-> "", wrote |-> q.wrote,
   attributed |-> q.attributed,
   jobs |-> {}, applications |-> {}, started |-> q.started, before |-> q.before,
   obs |-> q.loc]

Req(h, token, body, user) ==
  [h |-> h, token |-> token, body |-> body, user |-> user, pc |-> "begin",
   wrote |-> {}, attributed |-> {}, started |-> now, before |-> jobs, loc |-> {}]

Reply(s, r) ==
  /\ inflight' = [inflight EXCEPT ![s] = Idle]
  /\ resp' = r

Continue(s, q) ==
  /\ inflight' = [inflight EXCEPT ![s] = q]
  /\ resp' = NoResp

Goto(q, pc) == [q EXCEPT !.pc = pc]

Wrote(q, table, rows) == IF rows # {} THEN [q EXCEPT !.wrote = @ \cup {table}] ELSE q

\* The request inserted a row that names userId as its owner.
Attributed(q, userId) == [q EXCEPT !.attributed = @ \cup {userId}]

\* A response whose error text is the concatenation of `parts`, sent because
\* of an error whose own message is `cause`.
Failed(q, status, parts, cause) ==
  [Response(q, status, "") EXCEPT !.error = parts, !.cause = cause]


\* The catch blocks of manage-jobs and admin-manage: the message of an Error,
\* "Unknown error" for any other thrown value.
CatchMessage(thrown) == IF thrown.isError THEN thrown.message ELSE "Unknown error"

\* catch (error): status 500 with the message the catch block computes.
Caught(q, thrown) == Failed(q, 500, <<CatchMessage(thrown)>>, thrown.message)

Thrown(msg) == [isError |-> TRUE, message |-> msg]

\* What the datastore client hands back as `error`: a PostgREST error object.
\* Whether it is an instance of Error depends on the client library version.
PostgrestErrors(msg) == { [isError |-> b, message |-> msg] : b \in BOOLEAN }

HasKey(body, k) == k \in DOMAIN body

\* What a datastore call reports when it fails: the message of its error.
DatastoreErrors == {"connection to the database failed"}

(***************************************************************************)
(* manage-jobs                                                              *)
(***************************************************************************)
JobIds == 1..MaxJobs

JobStatus == {"open", "closed"}

\* The columns of an update if approval_status were among them: C12 fails
\* under it.
allowedFields_WithApproval ==
  {"title", "description", "conditions", "location", "max_applications",
   "expires_at", "status", "approval_status"}

\* manage-jobs line 283.
allowedFields ==
  {"title", "description", "conditions", "location", "max_applications",
   "expires_at", "status"}

\* The update that writes every key of the request: C19 fails under it.
FilteredUpdates_Unfiltered(body) ==
  LET keys == DOMAIN body \ {"job_id", "action"}
  IN [k \in keys \cup {"updated_at"} |-> IF k = "updated_at" THEN {now} ELSE body[k]]

\* manage-jobs lines 283-291.
FilteredUpdates(body) ==
  LET keys == allowedFields \cap (DOMAIN body \ {"job_id"})
  IN [k \in keys \cup {"updated_at"} |-> IF k = "updated_at" THEN {now} ELSE body[k]]

\* UPDATE ... SET of the datastore: the named columns take the new values.
ApplyUpdate(row, upd) ==
  [c \in DOMAIN row |-> IF c \in DOMAIN upd THEN upd[c] ELSE row[c]]

\* The enum job_status rejects any other value of the column status.
UpdateRejected(upd) == "status" \in DOMAIN upd /\ upd["status"] \notin JobStatus

\* The visibility test without the condition on status: C4 fails under it.
CanView_IgnoringStatus(job, userId) ==
  \/ userId # NoUser /\ job.creator_id = userId
  \/ job.approval_status = "approved"

\* manage-jobs lines 61-67 and 160-162.
CanView(job, userId) ==
  \/ userId # NoUser /\ job.creator_id = userId
  \/ job.approval_status = "approved" /\ job.status = "open"

\* manage-jobs lines 40-45: UPDATE jobs SET status = 'closed' WHERE status =
\* 'open' AND expires_at < now AND expires_at IS NOT NULL.
Expired(job, t) == \E e \in job.expires_at : e < t

ToClose(rows, t) == { r \in rows : r.status = "open" /\ Expired(r, t) }

AutoClose(rows, t) ==
  { IF r \in ToClose(rows, t)
      THEN [r EXCEPT !.status = "closed", !.updated_at = {t}]
      ELSE r : r \in rows }

\* manage-jobs lines 233-243; `max_applications || null` keeps a number other
\* than 0, and created_at is the column's default, the time of the insert.
NewJob(id, userId, body) ==
  [id |-> id,
   creator_id |-> userId,
   title |-> OptTrim(body.title),
   description |-> OptTrim(body.description),
   conditions |-> OrNull(OptTrim(body.conditions)),
   location |-> OrNull(OptTrim(body.location)),
   max_applications |-> IF HasKey(body, "max_applications")
                          THEN { n \in body.max_applications : n # 0 }
                          ELSE {},
   expires_at |-> body.expires_at,
   status |-> "open",
   approval_status |-> "pending",
   created_at |-> now,
   updated_at |-> {now}]

\* manage-jobs line 224.
CreateThrows(body) ==
  \/ OptTrimThrows(body.title)
  \/ ~Falsy(OptTrim(body.title)) /\ OptTrimThrows(body.description)

CreateInvalid(body) ==
  \/ Falsy(OptTrim(body.title))
  \/ Falsy(OptTrim(body.description))

\* The action strings the pages send to manage-jobs: useJobs.ts lines 63, 99,
\* 139, 206 and 245, JobDetail.tsx lines 63, 93 and 191, and the apply dialog.
FrontendActions ==
  {"list", "get", "my_jobs", "my_applications", "check_business_owner", "apply",
   "reply", "bulk_reply", "update"}

\* The cases of the switch, lines 38-582.
JobActions ==
  {"list", "my_jobs", "get", "create", "update", "delete", "apply", "reply",
   "get_all_applications", "my_applications", "check_business_owner"}

\* The request arrives: validate_session, req.json(), and the checks made
\* before the action's first datastore call.
MJ_Begin(s, token, body) ==
  /\ inflight[s] = Idle
  /\ LET q == Req("manage-jobs", token, body, SessionUser(token))
         needsUser == body.action \in {"my_jobs", "create", "update", "delete", "apply",
                                       "reply", "my_applications", "check_business_owner"}
         needsJobId == body.action \in {"get", "update", "delete", "apply"}
     IN IF needsUser /\ q.user = NoUser
          THEN Reply(s, Response(q, 401, "Authentication required"))
        ELSE IF needsJobId /\ ~HasKey(body, "job_id")
          THEN Reply(s, Response(q, 400, "Job ID required"))
        ELSE IF body.action = "create" /\ CreateThrows(body)
          THEN Reply(s, Caught(q, Thrown("trim is not a function")))
        ELSE IF body.action = "create" /\ CreateInvalid(body)
          THEN Reply(s, Response(q, 400, "Title and description are required"))
        ELSE IF body.action = "reply" /\ ~HasKey(body, "application_id")
          THEN Reply(s, Response(q, 400, "Application ID required"))
        ELSE IF body.action = "get_all_applications" /\ token = NoToken
          THEN Reply(s, Response(q, 401, "Admin authentication required"))
        ELSE IF body.action \in JobActions
          THEN Continue(s, Goto(q, body.action))
        ELSE Reply(s, Response(q, 400, "Invalid action"))
  /\ UNCHANGED <<notJobs, jobsDb>>

Running(s, h, pc) == inflight[s].h = h /\ inflight[s].pc = pc

\* case "list", lines 40-45: `now` is the handler's clock, read on arrival.
MJ_ListClose(s) ==
  /\ Running(s, "manage-jobs", "list")
  /\ jobs' = AutoClose(jobs, inflight[s].started)
  /\ Continue(s, Goto(Wrote(inflight[s], "jobs", ToClose(jobs, inflight[s].started)),
                      "list_select"))
  /\ UNCHANGED <<notJobs, nextJobId, job_applications, nextAppId>>

\* case "list", lines 61-67.
FilterJobs(rows, userId) == { j \in rows : CanView(j, userId) }

\* case "list", lines 48-67.
MJ_ListSelect(s) ==
  /\ Running(s, "manage-jobs", "list_select")
  /\ LET q == inflight[s]
     IN Continue(s, [Goto(q, "list_counts") EXCEPT
                       !.loc = [allJobs |-> jobs,
                                filteredJobs |-> FilterJobs(jobs, q.user)]])
  /\ UNCHANGED <<notJobs, jobsDb>>

WithCounts(rows, userId) ==
  { [job |-> j,
     application_count |-> Cardinality({a \in job_applications : a.job_id = j.id}),
     has_applied |-> userId # NoUser /\
                     \E a \in job_applications : a.job_id = j.id /\ a.applicant_id = userId]
    : j \in rows }

\* case "list", lines 70-96.
MJ_ListCounts(s) ==
  /\ Running(s, "manage-jobs", "list_counts")
  /\ LET q == inflight[s]
     IN Reply(s, [Response(q, 200, "") EXCEPT
                    !.jobs = WithCounts(q.loc.filteredJobs, q.user)])
  /\ UNCHANGED <<notJobs, jobsDb>>

\* case "get", lines 148-169.
MJ_GetSelect(s) ==
  /\ Running(s, "manage-jobs", "get")
  /\ LET q == inflight[s]
         rows == { j \in jobs : j.id = q.body.job_id }
         seen == [q EXCEPT !.loc = [job |-> rows]]
     IN IF SingleError(rows)
          THEN \E thrown \in PostgrestErrors("no rows returned") :
                 Reply(s, Caught(seen, thrown))
        ELSE IF ~CanView(TheRow(rows), q.user)
          THEN Reply(s, Response(seen, 404, "Job not found or access denied"))
        ELSE Continue(s, Goto(seen, "get_counts"))
  /\ UNCHANGED <<notJobs, jobsDb>>

\* The test that hands the applications of a job to any signed-in user:
\* C14 fails under it.
IsCreator_AnyUser(job, userId) == userId # NoUser

\* line 189: userId && job.creator_id === userId
IsCreator(job, userId) == userId # NoUser /\ job.creator_id = userId

\* case "get", lines 171-211.
MJ_GetCounts(s) ==
  /\ Running(s, "manage-jobs", "get_counts")
  /\ LET q == inflight[s]
     IN Reply(s, [Response(q, 200, "") EXCEPT
                    !.jobs = WithCounts(q.loc.job, q.user),
                    !.applications =
                       IF IsCreator(TheRow(q.loc.job), q.user)
                         THEN { a \in job_applications : a.job_id = q.body.job_id }
                         ELSE {}])
  /\ UNCHANGED <<notJobs, jobsDb>>

\* case "my_jobs", lines 108-136.
MJ_MyJobs(s) ==
  /\ Running(s, "manage-jobs", "my_jobs")
  /\ LET q == inflight[s]
     IN Reply(s, [Response(q, 200, "") EXCEPT
                    !.jobs = WithCounts({ j \in jobs : j.creator_id = q.user }, NoUser)])
  /\ UNCHANGED <<notJobs, jobsDb>>

\* case "create", lines 231-250.
MJ_CreateInsert(s) ==
  /\ Running(s, "manage-jobs", "create")
  /\ nextJobId <= MaxJobs
  /\ LET q == inflight[s]
         job == NewJob(nextJobId, q.user, q.body)
     IN /\ jobs' = jobs \cup {job}
        /\ nextJobId' = nextJobId + 1
        /\ Reply(s, [Response(Attributed(Wrote(q, "jobs", {job}), job.creator_id), 200, "")
                       EXCEPT !.jobs = {job}])
  /\ UNCHANGED <<notJobs, job_applications, nextAppId>>

\* The ownership test without the comparison of creator_id: C2 fails under it.
NotOwner_AnyUser(rows, userId) == SingleError(rows)

\* lines 276 and 327: !existing || existing.creator_id !== userId
NotOwner(rows, userId) == SingleError(rows) \/ TheRow(rows).creator_id # userId

\* case "update", lines 270-281.
MJ_UpdateCheck(s) ==
  /\ Running(s, "manage-jobs", "update")
  /\ LET q == inflight[s]
         existing == { j \in jobs : j.id = q.body.job_id }
         seen == [q EXCEPT !.loc = [existing |-> existing]]
     IN IF NotOwner(existing, q.user)
          THEN Reply(s, Response(seen, 403, "Not authorized to update this job"))
          ELSE Continue(s, Goto(seen, "update_write"))
  /\ UNCHANGED <<notJobs, jobsDb>>

\* case "update", lines 283-301.
MJ_UpdateWrite(s) ==
  /\ Running(s, "manage-jobs", "update_write")
  /\ LET q == inflight[s]
         upd == FilteredUpdates(q.body)
         hit == { j \in jobs : j.id = q.body.job_id }
     IN IF UpdateRejected(upd)
          THEN /\ jobs' = jobs
               /\ \E thrown \in PostgrestErrors("invalid input value for enum job_status") :
                    Reply(s, Caught(q, thrown))
          ELSE /\ jobs' = (jobs \ hit) \cup { ApplyUpdate(j, upd) : j \in hit }
               /\ Reply(s, Response(Wrote(q, "jobs", hit), 200, ""))
  /\ UNCHANGED <<notJobs, nextJobId, job_applications, nextAppId>>

\* case "delete", lines 321-332.
MJ_DeleteCheck(s) ==
  /\ Running(s, "manage-jobs", "delete")
  /\ LET q == inflight[s]
         existing == { j \in jobs : j.id = q.body.job_id }
         seen == [q EXCEPT !.loc = [existing |-> existing]]
     IN IF NotOwner(existing, q.user)
          THEN Reply(s, Response(seen, 403, "Not authorized to delete this job"))
          ELSE Continue(s, Goto(seen, "delete_applications"))
  /\ UNCHANGED <<notJobs, jobsDb>>

\* case "delete", line 335.
MJ_DeleteApplications(s) ==
  /\ Running(s, "manage-jobs", "delete_applications")
  /\ LET q == inflight[s]
         hit == { a \in job_applications : a.job_id = q.body.job_id }
     IN /\ job_applications' = job_applications \ hit
        /\ Continue(s, Goto(Wrote(q, "job_applications", hit), "delete_job"))
  /\ UNCHANGED <<notJobs, jobs, nextJobId, nextAppId>>

\* The foreign key job_applications.job_id -> jobs.id, which the embedded
\* selects jobs:job_id (...) of lines 431, 516 and 540 rely on: the rows that
\* reference a job.
References(job_id) == { a \in job_applications : a.job_id = job_id }

\* What the foreign key does when a referenced job is deleted is declared
\* with the table, outside the source: the delete is refused or it takes
\* the referencing rows with it.
OnDelete == {"no action", "cascade"}

\* case "delete", lines 338-343.
MJ_DeleteJob(s) ==
  /\ Running(s, "manage-jobs", "delete_job")
  /\ LET q == inflight[s]
         hit == { j \in jobs : j.id = q.body.job_id }
         refs == References(q.body.job_id)
     IN \E rule \in OnDelete :
          IF hit # {} /\ refs # {} /\ rule = "no action"
            THEN /\ UNCHANGED <<jobs, job_applications>>
                 /\ \E thrown \in PostgrestErrors("violates foreign key constraint") :
                      Reply(s, Caught(q, thrown))
            ELSE /\ jobs' = jobs \ hit
                 /\ job_applications' = IF hit # {} THEN job_applications \ refs
                                                    ELSE job_applications
                 /\ Reply(s, Response(Wrote(q, "jobs", hit), 200, ""))
  /\ UNCHANGED <<notJobs, nextJobId, nextAppId>>

\* case "apply", lines 363-381.
MJ_ApplyJob(s) ==
  /\ Running(s, "manage-jobs", "apply")
  /\ LET q == inflight[s]
         rows == { j \in jobs : j.id = q.body.job_id }
     IN IF SingleError(rows) \/ TheRow(rows).status # "open"
             \/ TheRow(rows).approval_status # "approved"
          THEN Reply(s, Response(q, 400, "Job is not open for applications"))
        ELSE IF TheRow(rows).creator_id = q.user
          THEN Reply(s, Response(q, 400, "Cannot apply to your own job"))
        ELSE Continue(s, Goto(q, "apply_existing"))
  /\ UNCHANGED <<notJobs, jobsDb>>

\* case "apply", lines 384-396: .maybeSingle() yields the row when exactly
\* one matches, null otherwise.
MJ_ApplyExisting(s) ==
  /\ Running(s, "manage-jobs", "apply_existing")
  /\ LET q == inflight[s]
         rows == { a \in job_applications :
                    a.job_id = q.body.job_id /\ a.applicant_id = q.user }
     IN IF ~SingleError(rows)
          THEN Reply(s, Response(q, 400, "You have already applied to this job"))
          ELSE Continue(s, Goto(q, "apply_insert"))
  /\ UNCHANGED <<notJobs, jobsDb>>

\* lines 399-403.
NewApplication(id, userId, body) ==
  [id |-> id,
   job_id |-> body.job_id,
   applicant_id |-> userId,
   message |-> OrNull(OptTrim(body.message)),
   creator_reply |-> {},
   replied_at |-> {}]

\* case "apply", lines 398-409.
MJ_ApplyInsert(s) ==
  /\ Running(s, "manage-jobs", "apply_insert")
  /\ nextAppId <= MaxApplications
  /\ LET q == inflight[s]
         row == NewApplication(nextAppId, q.user, q.body)
     IN IF OptTrimThrows(q.body.message)
          THEN /\ UNCHANGED <<job_applications, nextAppId>>
               /\ Reply(s, Caught(q, Thrown("trim is not a function")))
        ELSE IF { j \in jobs : j.id = row.job_id } = {}
          THEN /\ UNCHANGED <<job_applications, nextAppId>>
               /\ \E thrown \in PostgrestErrors("violates foreign key constraint") :
                    Reply(s, Caught(q, thrown))
          ELSE /\ job_applications' = job_applications \cup {row}
               /\ nextAppId' = nextAppId + 1
               /\ Reply(s, Response(Attributed(Wrote(q, "job_applications", {row}),
                                               row.applicant_id), 200, ""))
  /\ UNCHANGED <<notJobs, jobs, nextJobId>>

\* lines 451-457: replyMessages[reply_type] || replyMessages.contact_soon
ReplyMessage(reply_type) ==
  IF reply_type \in {"contact_soon", "shortlisted", "not_selected"}
    THEN reply_type ELSE "contact_soon"

\* case "reply", lines 429-448.
MJ_ReplySelect(s) ==
  /\ Running(s, "manage-jobs", "reply")
  /\ LET q == inflight[s]
         rows == { a \in job_applications : a.id = q.body.application_id }
         creators == { j.creator_id : j \in { j \in jobs : \E a \in rows : a.job_id = j.id } }
     IN IF SingleError(rows)
          THEN Reply(s, Response(q, 404, "Application not found"))
        ELSE IF creators # {q.user}
          THEN Reply(s, Response(q, 403, "Not authorized to reply to this application"))
        ELSE Continue(s, Goto(q, "reply_write"))
  /\ UNCHANGED <<notJobs, jobsDb>>

\* case "reply", lines 459-470.
MJ_ReplyWrite(s) ==
  /\ Running(s, "manage-jobs", "reply_write")
  /\ LET q == inflight[s]
         hit == { a \in job_applications : a.id = q.body.application_id }
         upd == [creator_reply |-> {ReplyMessage(q.body.reply_type)}, replied_at |-> {now}]
     IN /\ job_applications' = (job_applications \ hit) \cup { ApplyUpdate(a, upd) : a \in hit }
        /\ Reply(s, Response(Wrote(q, "job_applications", hit), 200, ""))
  /\ UNCHANGED <<notJobs, jobs, nextJobId, nextAppId>>

\* case "get_all_applications", lines 484-497.
MJ_AllSession(s) ==
  /\ Running(s, "manage-jobs", "get_all_applications")
  /\ LET q == inflight[s]
     IN IF LiveSessions(q.token) = {}
          THEN Reply(s, Response(q, 401, "Invalid or expired session"))
          ELSE Continue(s, [Goto(q, "all_roles") EXCEPT
                              !.loc = [session |-> ValidateSession(q.token)]])
  /\ UNCHANGED <<notJobs, jobsDb>>

\* case "get_all_applications", lines 499-509.
MJ_AllRoles(s) ==
  /\ Running(s, "manage-jobs", "all_roles")
  /\ LET q == inflight[s]
     IN IF { r \in user_roles : r.user_id = q.loc.session } = {}
          THEN Reply(s, Response(q, 403, "Unauthorized: Admin access required"))
          ELSE Continue(s, Goto(q, "all_select"))
  /\ UNCHANGED <<notJobs, jobsDb>>

\* case "get_all_applications", lines 512-524.
MJ_AllSelect(s) ==
  /\ Running(s, "manage-jobs", "all_select")
  /\ Reply(s, [Response(inflight[s], 200, "") EXCEPT !.applications = job_applications])
  /\ UNCHANGED <<notJobs, jobsDb>>

\* case "my_applications", lines 536-558.
MJ_MyApplications(s) ==
  /\ Running(s, "manage-jobs", "my_applications")
  /\ LET q == inflight[s]
     IN Reply(s, [Response(q, 200, "") EXCEPT
                    !.applications = { a \in job_applications : a.applicant_id = q.user }])
  /\ UNCHANGED <<notJobs, jobsDb>>

\* case "check_business_owner", lines 570-580.
MJ_CheckBusinessOwner(s) ==
  /\ Running(s, "manage-jobs", "check_business_owner")
  /\ LET q == inflight[s]
         owned == { b \in businesses :
                     b.owner_id = q.user /\ b.approval_status = "approved" }
     IN Reply(s, [Response(q, 200, "") EXCEPT
                    !.obs = [is_business_owner |-> owned # {}]])
  /\ UNCHANGED <<notJobs, jobsDb>>

(***************************************************************************)
(* The requests made to manage-jobs.                                       *)
(***************************************************************************)
TitleInputs ==
  { Undef, JNull, JStr(<<>>), JStr(<<" ">>), JStr(<<" ", "D", " ">>), JNum(5) }

DescriptionInputs == { Undef, JStr(<<" ", " ">>), JStr(<<"x", " ">>), JNum(5) }

CreateBody(t, d, e) ==
  [action |-> "create", title |-> t, description |-> d, conditions |-> Undef,
   location |-> JStr(<<" ">>), expires_at |-> e]

CreateBodies ==
  { CreateBody(t, d, {}) : t \in TitleInputs, d \in DescriptionInputs }
    \cup { CreateBody(JStr(<<" ", "D", " ">>), JStr(<<"x", " ">>), {0}) }

\* The keys an update request carries besides action and job_id.
UpdatePatches ==
  { [status |-> "closed"], [status |-> "open"], [status |-> "paused"],
    [status |-> "open", approval_status |-> "approved"] }

UpdateBodies ==
  { [action |-> "update", status |-> "closed"] } \cup
  { p @@ [action |-> "update", job_id |-> j] : p \in UpdatePatches, j \in JobIds }

JobIdBodies(a) == { [action |-> a] } \cup { [action |-> a, job_id |-> j] : j \in JobIds }

\* Every body is sent without a session and by the users u1 and u2 (only u1
\* creates jobs); the invalidated session t0 sends one body of each action.
JobRequests ==
  { <<token, body>> :
      token \in {NoToken, "t1", "t2"},
      body \in { [action |-> "list"], [action |-> "my_jobs"], [action |-> "bulk_reply"] }
                 \cup JobIdBodies("get") \cup JobIdBodies("delete") \cup UpdateBodies }
    \cup { <<"t1", body>> : body \in CreateBodies }
    \cup { <<token, body>> :
             token \in {NoToken, "t0"},
             body \in { CreateBody(JStr(<<" ", "D", " ">>), JStr(<<"x", " ">>), {}) } }
    \cup { <<"t0", [action |-> a, job_id |-> 1]>> :
             a \in {"list", "my_jobs", "get", "update", "delete"} }

\* The steps of apply, reply, get_all_applications, my_applications and
\* check_business_owner.
JobApplications(s) ==
  \/ MJ_ApplyJob(s)
  \/ MJ_ApplyExisting(s)
  \/ MJ_ApplyInsert(s)
  \/ MJ_ReplySelect(s)
  \/ MJ_ReplyWrite(s)
  \/ MJ_AllSession(s)
  \/ MJ_AllRoles(s)
  \/ MJ_AllSelect(s)
  \/ MJ_MyApplications(s)
  \/ MJ_CheckBusinessOwner(s)

\* The steps of list, get, my_jobs, create, update and delete.
JobSteps(s) ==
  \/ MJ_ListClose(s)
  \/ MJ_ListSelect(s)
  \/ MJ_ListCounts(s)
  \/ MJ_GetSelect(s)
  \/ MJ_GetCounts(s)
  \/ MJ_MyJobs(s)
  \/ MJ_CreateInsert(s)
  \/ MJ_UpdateCheck(s)
  \/ MJ_UpdateWrite(s)
  \/ MJ_DeleteCheck(s)
  \/ MJ_DeleteApplications(s)
  \/ MJ_DeleteJob(s)

ManageJobs(s) ==
  \/ \E r \in JobRequests : MJ_Begin(s, r[1], r[2])
  \/ JobSteps(s)

(***************************************************************************)
(* admin-manage                                                             *)
(***************************************************************************)
EntityTypes == {"communities", "businesses", "jobs"}

\* entity_type.slice(0, -1)
SliceLast(entity_type) ==
  CASE entity_type = "jobs" -> "job"
    [] entity_type = "businesses" -> "businesse"
    [] entity_type = "communities" -> "communitie"

\* The checks of the switch made before its first datastore call: what is
\* thrown, if anything (lines 611-613, 618-626, 651-653, 678-680, 704-705).
\* The message is the fixed text; the code appends the offending value.
AdminThrows(body) ==
  CASE body.action = "list" ->
         IF HasKey(body, "entity_type") /\ body.entity_type \in EntityTypes
           THEN {} ELSE {Thrown("Unknown entity type")}
    [] body.action = "update" ->
         IF ~HasKey(body, "entity_id") \/ ~HasKey(body, "updates")
           THEN {Thrown("Missing entity_id or updates")}
         ELSE IF HasKey(body, "entity_type") /\ body.entity_type \in EntityTypes
           THEN {} ELSE {Thrown("Unknown entity type")}
    [] body.action = "delete" ->
         IF ~HasKey(body, "entity_id")
           THEN {Thrown("Missing entity_id")}
         ELSE IF HasKey(body, "entity_type") /\ body.entity_type \in EntityTypes
           THEN {} ELSE {Thrown("Unknown entity type")}
    [] OTHER -> {Thrown("Unknown action")}

\* lines 469-476.
AM_Begin(s, token, body) ==
  /\ inflight[s] = Idle
  /\ LET q == Req("admin-manage", token, body, NoUser)
     IN IF token = NoToken
          THEN Reply(s, Response(q, 401, "Missing session token"))
          ELSE Continue(s, Goto(q, "session"))
  /\ UNCHANGED <<notAdmin, jobs, job_applications, admin_activity_logs>>

\* lines 479-495.
AM_Session(s) ==
  /\ Running(s, "admin-manage", "session")
  /\ LET q == inflight[s]
     IN IF LiveSessions(q.token) = {}
          THEN Reply(s, Response(q, 401, "Invalid or expired session"))
          ELSE Continue(s, Goto([q EXCEPT !.user = ValidateSession(q.token)], "roles"))
  /\ UNCHANGED <<notAdmin, jobs, job_applications, admin_activity_logs>>

\* lines 498-517, and the checks of the action before its first datastore call.
AM_Roles(s) ==
  /\ Running(s, "admin-manage", "roles")
  /\ LET q == inflight[s]
         roles == { r \in user_roles : r.user_id = q.user }
     IN IF roles = {}
          THEN Reply(s, Response(q, 403, "Unauthorized: No admin roles"))
        ELSE IF AdminThrows(q.body) # {}
          THEN Reply(s, Caught(q, TheRow(AdminThrows(q.body))))
        ELSE Continue(s, Goto(q, q.body.action))
  /\ UNCHANGED <<notAdmin, jobs, job_applications, admin_activity_logs>>

\* case "list", entity_type jobs: lines 577-589.
AM_List(s) ==
  /\ Running(s, "admin-manage", "list")
  /\ inflight[s].body.entity_type = "jobs"
  /\ LET q == inflight[s]
     IN Continue(s, [Goto(q, "list_counts") EXCEPT
                       !.loc = [data |-> jobs]])
  /\ UNCHANGED <<notAdmin, jobs, job_applications, admin_activity_logs>>

\* lines 592-610.
AM_ListCounts(s) ==
  /\ Running(s, "admin-manage", "list_counts")
  /\ inflight[s].body.entity_type = "jobs"
  /\ LET q == inflight[s]
     IN Reply(s, [Response(q, 200, "") EXCEPT
                    !.jobs = { [job |-> j,
                                application_count |->
                                  Cardinality({a \in job_applications : a.job_id = j.id})]
                               : j \in q.loc.data }])
  /\ UNCHANGED <<notAdmin, jobs, job_applications, admin_activity_logs>>

\* case "update", lines 628-636: the update object is written as it came.
AM_Update(s) ==
  /\ Running(s, "admin-manage", "update")
  /\ inflight[s].body.entity_type = "jobs"
  /\ LET q == inflight[s]
         hit == { j \in jobs : j.id = q.body.entity_id }
     IN /\ jobs' = (jobs \ hit) \cup { ApplyUpdate(j, q.body.updates) : j \in hit }
        /\ Continue(s, Goto(Wrote(q, "jobs", hit), "update_log"))
  /\ UNCHANGED <<notAdmin, job_applications, admin_activity_logs>>

LogRow(q, what) ==
  [admin_id |-> q.user, action |-> what, target_type |-> SliceLast(q.body.entity_type),
   target_id |-> q.body.entity_id]

\* lines 639-647.
AM_UpdateLog(s) ==
  /\ Running(s, "admin-manage", "update_log")
  /\ LET q == inflight[s]
         row == LogRow(q, <<"Updated", q.body.entity_type, q.body.updates>>)
     IN /\ admin_activity_logs' = admin_activity_logs \cup {row}
        /\ Reply(s, Response(Wrote(q, "admin_activity_logs", {row}), 200, ""))
  /\ UNCHANGED <<notAdmin, jobs, job_applications>>

\* case "delete", entity_type jobs: lines 674-677.
AM_DeleteApplications(s) ==
  /\ Running(s, "admin-manage", "delete")
  /\ inflight[s].body.entity_type = "jobs"
  /\ LET q == inflight[s]
         hit == { a \in job_applications : a.job_id = q.body.entity_id }
     IN /\ job_applications' = job_applications \ hit
        /\ Continue(s, Goto(Wrote(q, "job_applications", hit), "delete_row"))
  /\ UNCHANGED <<notAdmin, jobs, admin_activity_logs>>

\* lines 682-690.
AM_DeleteRow(s) ==
  /\ Running(s, "admin-manage", "delete_row")
  /\ inflight[s].body.entity_type = "jobs"
  /\ LET q == inflight[s]
         hit == { j \in jobs : j.id = q.body.entity_id }
         refs == References(q.body.entity_id)
     IN \E rule \in OnDelete :
          IF hit # {} /\ refs # {} /\ rule = "no action"
            THEN /\ UNCHANGED <<jobs, job_applications>>
                 /\ \E thrown \in PostgrestErrors("violates foreign key constraint") :
                      Reply(s, Caught(q, thrown))
            ELSE /\ jobs' = jobs \ hit
                 /\ job_applications' = IF hit # {} THEN job_applications \ refs
                                                    ELSE job_applications
                 /\ Continue(s, Goto(Wrote(q, "jobs", hit), "delete_log"))
  /\ UNCHANGED <<notAdmin, admin_activity_logs>>

\* lines 693-701.
AM_DeleteLog(s) ==
  /\ Running(s, "admin-manage", "delete_log")
  /\ LET q == inflight[s]
         row == LogRow(q, <<"Deleted", q.body.entity_type>>)
     IN /\ admin_activity_logs' = admin_activity_logs \cup {row}
        /\ Reply(s, Response(Wrote(q, "admin_activity_logs", {row}), 200, ""))
  /\ UNCHANGED <<notAdmin, jobs, job_applications>>

(***************************************************************************)
(* The requests made to admin-manage.                                      *)
(***************************************************************************)
AdminUpdates == { [approval_status |-> "approved"], [approval_status |-> "rejected"] }

AdminApprove(j, u) ==
  [action |-> "update", entity_type |-> "jobs", entity_id |-> j, updates |-> u]

AdminBodies ==
  { [action |-> "list", entity_type |-> "jobs"],
    [action |-> "list", entity_type |-> "posts"],
    [action |-> "ban", entity_type |-> "jobs"],
    [action |-> "update", entity_type |-> "jobs", updates |-> [approval_status |-> "approved"]],
    [action |-> "update", entity_type |-> "posts", entity_id |-> 1,
     updates |-> [approval_status |-> "approved"]],
    [action |-> "delete", entity_type |-> "posts", entity_id |-> 1],
    [action |-> "delete", entity_type |-> "jobs"] }
  \cup { AdminApprove(j, u) : j \in JobIds, u \in AdminUpdates }
  \cup { [action |-> a, entity_type |-> "jobs", entity_id |-> j] :
           a \in {"update", "delete"}, j \in JobIds }

\* The administrator sends every body; a request without a token, with an
\* unknown token and with the token of a user who has no role sends one.
AdminRequests ==
  { <<"ta", body>> : body \in AdminBodies }
    \cup { <<token, AdminApprove(1, [approval_status |-> "approved"])>> :
             token \in {NoToken, "tx", "t1"} }

AdminManage(s) ==
  \/ \E r \in AdminRequests : AM_Begin(s, r[1], r[2])
  \/ AM_Session(s)
  \/ AM_Roles(s)
  \/ AM_List(s)
  \/ AM_ListCounts(s)
  \/ AM_Update(s)
  \/ AM_UpdateLog(s)
  \/ AM_DeleteApplications(s)
  \/ AM_DeleteRow(s)
  \/ AM_DeleteLog(s)

(***************************************************************************)
(* manage-community                                                         *)
(***************************************************************************)
validPermissions ==
  {"edit_community", "create_polls", "moderate_discussions", "manage_members"}

notCommunity == <<now, auth, jobsDb, businesses, admin_activity_logs, feedDb,
                  user_credentials, signedUp>>

\* .maybeSingle(): the row when exactly one matches, null otherwise.
MaybeSingle(rows) == IF Cardinality(rows) = 1 THEN rows ELSE {}

CommunityOf(id) == { c \in communities : c.id = id }

\* communityData?.created_by === userId
CreatedBy(rows, userId) == \E c \in MaybeSingle(rows) : c.created_by = userId

HasPermission(community_id, userId, permission) ==
  MaybeSingle({ p \in community_permissions :
                  /\ p.community_id = community_id
                  /\ p.user_id = userId
                  /\ p.permission = permission }) # {}

\* The checks each action makes before its first datastore call: the answer
\* it gives, if it gives one there (lines 50-56, 99-105, 146-152, 188-194,
\* 219-225, 248-254, 327-340, 410-425, 497-512, 550-553).
CommunityRejects(body) ==
  LET missing(k) == ~HasKey(body, k)
      a == body.action
  IN CASE a = "create" ->
            IF Falsy(OptTrim(body.name)) THEN <<"Community name is required">> ELSE <<>>
       [] a \in {"update", "delete", "join", "leave"} ->
            IF missing("community_id") THEN <<"Community ID is required">> ELSE <<>>
       [] a = "delete_discussion" ->
            IF missing("discussion_id") THEN <<"Discussion ID is required">> ELSE <<>>
       [] a = "remove_member" ->
            IF missing("community_id") THEN <<"Community ID is required">>
            ELSE IF missing("member_user_id") THEN <<"Member user ID is required">>
            ELSE <<>>
       [] a \in {"grant_permission", "revoke_permission"} ->
            IF missing("community_id") \/ missing("target_user_id") \/ missing("permission")
              THEN <<"Community ID, target user ID, and permission are required">>
            ELSE IF body.permission \notin validPermissions
              THEN <<"Invalid permission type">>
            ELSE <<>>
       [] OTHER -> <<"Invalid action">>

\* The catch block, lines 555-561.
InternalError(q, cause) == Failed(q, 500, <<"Internal server error">>, cause)

\* lines 29-56 and the first check of every action.
MC_Begin(s, token, body) ==
  /\ inflight[s] = Idle
  /\ LET q == Req("manage-community", token, body,
                  IF token = NoToken THEN NoUser ELSE ValidateSession(token))
     IN IF token = NoToken
          THEN Reply(s, Response(q, 401, "No session token provided"))
        ELSE IF q.user = NoUser
          THEN Reply(s, Response(q, 401, "Invalid or expired session"))
        ELSE IF body.action = "create" /\ OptTrimThrows(body.name)
          THEN Reply(s, InternalError(q, "trim is not a function"))
        ELSE IF CommunityRejects(body) # <<>>
          THEN Reply(s, Response(q, 400, CommunityRejects(body)[1]))
        ELSE Continue(s, Goto(q, body.action))
  /\ UNCHANGED <<notCommunity, communityDb, nextId>>

\* lines 61-67.
NewCommunity(id, userId, body) ==
  [id |-> id,
   name |-> OptTrim(body.name),
   created_by |-> userId,
   approval_status |-> "pending",
   updated_at |-> {}]

\* action create, lines 59-77.
MC_CreateInsert(s) ==
  /\ Running(s, "manage-community", "create")
  /\ nextId <= MaxRows
  /\ LET q == inflight[s]
         row == NewCommunity(nextId, q.user, q.body)
     IN /\ communities' = communities \cup {row}
        /\ nextId' = nextId + 1
        /\ Continue(s, [Goto(Attributed(Wrote(q, "communities", {row}), row.created_by),
                             "create_member")
                          EXCEPT !.loc = [community |-> row]])
  /\ UNCHANGED <<notCommunity, community_members, community_permissions,
                 community_discussions>>

\* action create, lines 80-95: when the insert fails the error is logged
\* and the answer is the same.
MC_CreateMember(s) ==
  /\ Running(s, "manage-community", "create_member")
  /\ LET q == inflight[s]
         row == [community_id |-> q.loc.community.id, user_id |-> q.user, role |-> "admin"]
     IN \/ /\ community_members' = community_members \cup {row}
           /\ Reply(s, Response(Attributed(Wrote(q, "community_members", {row}),
                                           row.user_id), 200, ""))
        \/ \E e \in DatastoreErrors :
             /\ community_members' = community_members
             /\ Reply(s, Response(q, 200, ""))
  /\ UNCHANGED <<notCommunity, communities, community_permissions, community_discussions,
                 nextId>>

\* actions update and delete, lines 108-119 and 155-166.
MC_OwnerCheck(s) ==
  /\ \/ Running(s, "manage-community", "update")
     \/ Running(s, "manage-community", "delete")
  /\ LET q == inflight[s]
         existing == CommunityOf(q.body.community_id)
     IN IF SingleError(existing) \/ TheRow(existing).created_by # q.user
          THEN Reply(s, Response(q, 403, IF q.pc = "update"
                                           THEN "Not authorized to update this community"
                                           ELSE "Not authorized to delete this community"))
          ELSE Continue(s, Goto(q, IF q.pc = "update" THEN "update_write" ELSE "delete_write"))
  /\ UNCHANGED <<notCommunity, communityDb, nextId>>

\* action update, lines 121-142: a key whose value is undefined is not sent.
MC_UpdateWrite(s) ==
  /\ Running(s, "manage-community", "update_write")
  /\ LET q == inflight[s]
         hit == CommunityOf(q.body.community_id)
         upd == IF q.body.name.t = "string"
                  THEN [name |-> OptTrim(q.body.name), updated_at |-> {now}]
                  ELSE [updated_at |-> {now}]
     IN IF OptTrimThrows(q.body.name)
          THEN /\ communities' = communities
               /\ Reply(s, InternalError(q, "trim is not a function"))
          ELSE /\ communities' = (communities \ hit) \cup { ApplyUpdate(c, upd) : c \in hit }
               /\ Reply(s, Response(Wrote(q, "communities", hit), 200, ""))
  /\ UNCHANGED <<notCommunity, community_members, community_permissions,
                 community_discussions, nextId>>

\* action delete, lines 168-184.
MC_DeleteWrite(s) ==
  /\ Running(s, "manage-community", "delete_write")
  /\ LET q == inflight[s]
         hit == CommunityOf(q.body.community_id)
     IN /\ communities' = communities \ hit
        /\ Reply(s, Response(Wrote(q, "communities", hit), 200, ""))
  /\ UNCHANGED <<notCommunity, community_members, community_permissions,
                 community_discussions, nextId>>

\* action join, lines 196-215.  Whether the datastore refuses a second row
\* of the same member is not decided here: it may do either.
MC_Join(s) ==
  /\ Running(s, "manage-community", "join")
  /\ LET q == inflight[s]
         row == [community_id |-> q.body.community_id, user_id |-> q.user, role |-> "member"]
         same == { m \in community_members :
                     m.community_id = row.community_id /\ m.user_id = row.user_id }
     IN \/ /\ community_members' = community_members \cup {row}
           /\ Reply(s, Response(Attributed(Wrote(q, "community_members", {row}), row.user_id),
                                200, ""))
        \/ /\ same # {}
           /\ community_members' = community_members
           /\ Reply(s, Failed(q, 400, <<"duplicate key value">>, "duplicate key value"))
  /\ UNCHANGED <<notCommunity, communities, community_permissions, community_discussions,
                 nextId>>

\* action leave, lines 227-244.
MC_Leave(s) ==
  /\ Running(s, "manage-community", "leave")
  /\ LET q == inflight[s]
         hit == { m \in community_members :
                    m.community_id = q.body.community_id /\ m.user_id = q.user }
     IN /\ community_members' = community_members \ hit
        /\ Reply(s, Response(Wrote(q, "community_members", hit), 200, ""))
  /\ UNCHANGED <<notCommunity, communities, community_permissions, community_discussions,
                 nextId>>

\* action delete_discussion, lines 257-277.
MC_DiscussionFetch(s) ==
  /\ Running(s, "manage-community", "delete_discussion")
  /\ LET q == inflight[s]
         discussion == MaybeSingle({ d \in community_discussions : d.id = q.body.discussion_id })
         seen == [q EXCEPT !.loc = [discussion |-> discussion]]
     IN IF discussion = {}
          THEN Reply(s, Response(q, 404, "Discussion not found"))
        ELSE IF TheRow(discussion).user_id = q.user
          THEN Continue(s, Goto(seen, "discussion_delete"))
        ELSE Continue(s, Goto(seen, "discussion_community"))
  /\ UNCHANGED <<notCommunity, communityDb, nextId>>

\* action delete_discussion, lines 278-287.
MC_DiscussionCommunity(s) ==
  /\ Running(s, "manage-community", "discussion_community")
  /\ LET q == inflight[s]
     IN IF CreatedBy(CommunityOf(TheRow(q.loc.discussion).community_id), q.user)
          THEN Continue(s, Goto(q, "discussion_delete"))
          ELSE Continue(s, Goto(q, "discussion_permission"))
  /\ UNCHANGED <<notCommunity, communityDb, nextId>>

\* action delete_discussion, lines 288-305.
MC_DiscussionPermission(s) ==
  /\ Running(s, "manage-community", "discussion_permission")
  /\ LET q == inflight[s]
     IN IF HasPermission(TheRow(q.loc.discussion).community_id, q.user, "moderate_discussions")
          THEN Continue(s, Goto(q, "discussion_delete"))
          ELSE Reply(s, Response(q, 403, "Not authorized to delete this discussion"))
  /\ UNCHANGED <<notCommunity, communityDb, nextId>>

\* action delete_discussion, lines 307-323.
MC_DiscussionDelete(s) ==
  /\ Running(s, "manage-community", "discussion_delete")
  /\ LET q == inflight[s]
         hit == { d \in community_discussions : d.id = q.body.discussion_id }
     IN /\ community_discussions' = community_discussions \ hit
        /\ Reply(s, Response(Wrote(q, "community_discussions", hit), 200, ""))
  /\ UNCHANGED <<notCommunity, communities, community_members, community_permissions,
                 nextId>>

\* action remove_member, lines 365-386: the answer once isCreator and
\* hasManagePermission are known, if the member is not removed.
\* The checks of remove_member without the one on the caller's rights: C25
\* fails under it.
RemoveRejects_AnyCaller(q, communityCheck, hasManagePermission) ==
  IF CreatedBy(communityCheck, q.body.member_user_id)
    THEN <<400, "Cannot remove the community creator">>
  ELSE IF q.body.member_user_id = q.user
    THEN <<400, "Cannot remove yourself from your own community">>
  ELSE <<>>

\* lines 367-386.
RemoveRejects(q, communityCheck, hasManagePermission) ==
  IF ~CreatedBy(communityCheck, q.user) /\ ~hasManagePermission
    THEN <<403, "Only community admins or members with manage permission can remove members">>
  ELSE IF CreatedBy(communityCheck, q.body.member_user_id)
    THEN <<400, "Cannot remove the community creator">>
  ELSE IF q.body.member_user_id = q.user
    THEN <<400, "Cannot remove yourself from your own community">>
  ELSE <<>>

\* action remove_member, lines 343-353.
MC_RemoveCheck(s) ==
  /\ Running(s, "manage-community", "remove_member")
  /\ LET q == inflight[s]
         communityCheck == MaybeSingle(CommunityOf(q.body.community_id))
         seen == [q EXCEPT !.loc = [communityCheck |-> communityCheck]]
         no == RemoveRejects(q, communityCheck, FALSE)
     IN IF ~CreatedBy(communityCheck, q.user)
          THEN Continue(s, Goto(seen, "remove_permission"))
        ELSE IF no # <<>>
          THEN Reply(s, Response(seen, no[1], no[2]))
        ELSE Continue(s, Goto(seen, "remove_write"))
  /\ UNCHANGED <<notCommunity, communityDb, nextId>>

\* action remove_member, lines 354-386.
MC_RemovePermission(s) ==
  /\ Running(s, "manage-community", "remove_permission")
  /\ LET q == inflight[s]
         no == RemoveRejects(q, q.loc.communityCheck,
                             HasPermission(q.body.community_id, q.user, "manage_members"))
     IN IF no # <<>>
          THEN Reply(s, Response(q, no[1], no[2]))
          ELSE Continue(s, Goto(q, "remove_write"))
  /\ UNCHANGED <<notCommunity, communityDb, nextId>>

\* action remove_member, lines 389-406.
MC_RemoveWrite(s) ==
  /\ Running(s, "manage-community", "remove_write")
  /\ LET q == inflight[s]
         hit == { m \in community_members :
                    m.community_id = q.body.community_id /\ m.user_id = q.body.member_user_id }
     IN \/ /\ community_members' = community_members \ hit
           /\ Reply(s, Response(Wrote(q, "community_members", hit), 200, ""))
        \/ \E e \in DatastoreErrors :
             /\ community_members' = community_members
             /\ Reply(s, Response(q, 400, e))
  /\ UNCHANGED <<notCommunity, communities, community_permissions, community_discussions,
                 nextId>>

\* actions grant_permission and revoke_permission, lines 428-439 and 515-526.
MC_CreatorCheck(s) ==
  /\ \/ Running(s, "manage-community", "grant_permission")
     \/ Running(s, "manage-community", "revoke_permission")
  /\ LET q == inflight[s]
     IN IF ~CreatedBy(CommunityOf(q.body.community_id), q.user)
          THEN Reply(s, Response(q, 403, "Only community creators can manage permissions"))
          ELSE Continue(s, Goto(q, IF q.pc = "grant_permission"
                                     THEN "grant_member" ELSE "revoke_write"))
  /\ UNCHANGED <<notCommunity, communityDb, nextId>>

\* action grant_permission, lines 442-454.
MC_GrantMember(s) ==
  /\ Running(s, "manage-community", "grant_member")
  /\ LET q == inflight[s]
         memberCheck == MaybeSingle({ m \in community_members :
                                        /\ m.community_id = q.body.community_id
                                        /\ m.user_id = q.body.target_user_id })
     IN IF memberCheck = {}
          THEN Reply(s, Response(q, 400, "User is not a member of this community"))
          ELSE Continue(s, Goto(q, "grant_existing"))
  /\ UNCHANGED <<notCommunity, communityDb, nextId>>

\* action grant_permission, lines 457-470.
MC_GrantExisting(s) ==
  /\ Running(s, "manage-community", "grant_existing")
  /\ LET q == inflight[s]
     IN IF HasPermission(q.body.community_id, q.body.target_user_id, q.body.permission)
          THEN Reply(s, Response(q, 200, ""))
          ELSE Continue(s, Goto(q, "grant_insert"))
  /\ UNCHANGED <<notCommunity, communityDb, nextId>>

\* action grant_permission, lines 473-493.
MC_GrantInsert(s) ==
  /\ Running(s, "manage-community", "grant_insert")
  /\ LET q == inflight[s]
         row == [community_id |-> q.body.community_id, user_id |-> q.body.target_user_id,
                 permission |-> q.body.permission, granted_by |-> q.user]
     IN /\ community_permissions' = community_permissions \cup {row}
        /\ Reply(s, Response(Wrote(q, "community_permissions", {row}), 200, ""))
  /\ UNCHANGED <<notCommunity, communities, community_members, community_discussions,
                 nextId>>

\* action revoke_permission, lines 529-547.
MC_RevokeWrite(s) ==
  /\ Running(s, "manage-community", "revoke_write")
  /\ LET q == inflight[s]
         hit == { p \in community_permissions :
                    /\ p.community_id = q.body.community_id
                    /\ p.user_id = q.body.target_user_id
                    /\ p.permission = q.body.permission }
     IN /\ community_permissions' = community_permissions \ hit
        /\ Reply(s, Response(Wrote(q, "community_permissions", hit), 200, ""))
  /\ UNCHANGED <<notCommunity, communities, community_members, community_discussions,
                 nextId>>

(***************************************************************************)
(* The requests made to manage-community.                                  *)
(***************************************************************************)
CommunityBodies ==
  { [action |-> "create", name |-> JStr(<<" ", "C">>)],
    [action |-> "update", community_id |-> 1, name |-> JStr(<<"N", " ">>)],
    [action |-> "delete", community_id |-> 1],
    [action |-> "join", community_id |-> 1],
    [action |-> "leave", community_id |-> 1],
    [action |-> "delete_discussion", discussion_id |-> 1],
    [action |-> "delete_discussion", discussion_id |-> 2],
    [action |-> "remove_member", community_id |-> 1, member_user_id |-> "u2"],
    [action |-> "grant_permission", community_id |-> 1, target_user_id |-> "u2",
     permission |-> "moderate_discussions"],
    [action |-> "revoke_permission", community_id |-> 1, target_user_id |-> "u2",
     permission |-> "moderate_discussions"],
    [action |-> "archive", community_id |-> 1] }

\* Bodies that an action refuses before it calls the datastore.
CommunityBadBodies ==
  { [action |-> "create", name |-> JStr(<<" ">>)],
    [action |-> "create", name |-> JNum(5)],
    [action |-> "update", name |-> JStr(<<"N">>)],
    [action |-> "delete_discussion"],
    [action |-> "remove_member", community_id |-> 1],
    [action |-> "grant_permission", community_id |-> 1, target_user_id |-> "u2",
     permission |-> "owner"] }

\* Every body of CommunityBodies is sent without a token and with an
\* expiring session; the creator u1 sends all but join and leave, the member
\* u2 all but create and revoke_permission; an invalidated session and an
\* unknown token send one body.
CommunityRequests ==
  { <<token, body>> : token \in {NoToken, "te"}, body \in CommunityBodies }
    \cup { <<"t1", body>> :
             body \in { b \in CommunityBodies : b.action \notin {"join", "leave"} }
                        \cup CommunityBadBodies }
    \cup { <<"t2", body>> :
             body \in { b \in CommunityBodies :
                          b.action \notin {"create", "revoke_permission"} } }
    \cup { <<token, [action |-> "delete", community_id |-> 1]>> : token \in {"t0", "tx"} }

MCSteps(s) ==
  \/ MC_CreateInsert(s)
  \/ MC_CreateMember(s)
  \/ MC_OwnerCheck(s)
  \/ MC_UpdateWrite(s)
  \/ MC_DeleteWrite(s)
  \/ MC_Join(s)
  \/ MC_Leave(s)
  \/ MC_DiscussionFetch(s)
  \/ MC_DiscussionCommunity(s)
  \/ MC_DiscussionPermission(s)
  \/ MC_DiscussionDelete(s)
  \/ MC_RemoveCheck(s)
  \/ MC_RemovePermission(s)
  \/ MC_RemoveWrite(s)
  \/ MC_CreatorCheck(s)
  \/ MC_GrantMember(s)
  \/ MC_GrantExisting(s)
  \/ MC_GrantInsert(s)
  \/ MC_RevokeWrite(s)

(***************************************************************************)
(* create-post and create-business                                          *)
(***************************************************************************)
notFeed == <<now, auth, jobsDb, admin_activity_logs, communityDb, user_credentials,
             signedUp>>

ProfileOf(id) == { p \in profiles : p.id = id }

\* create-post lines 21-28.
CP_Begin(s, token, body) ==
  /\ inflight[s] = Idle
  /\ LET q == Req("create-post", token, body, NoUser)
     IN IF ~HasKey(body, "user_id")
          THEN Reply(s, Response(q, 400, "User ID is required"))
          ELSE Continue(s, Goto(q, "profile"))
  /\ UNCHANGED <<notFeed, feedDb, businesses, nextId>>

\* create-post lines 53-58: the answer when the post has nothing to show.
CP_Validate(s, q) ==
  IF Falsy(q.body.content)
    THEN Reply(s, Response(q, 400, "Post must have content, image, or video"))
    ELSE Continue(s, Goto(q, "insert"))

\* create-post lines 31-37 and 53-58.
CP_Profile(s) ==
  /\ Running(s, "create-post", "profile")
  /\ LET q == inflight[s]
     IN IF MaybeSingle(ProfileOf(q.body.user_id)) = {}
          THEN Continue(s, Goto(q, "upsert"))
          ELSE CP_Validate(s, q)
  /\ UNCHANGED <<notFeed, feedDb, businesses, nextId>>

\* create-post lines 39-58.
CP_Upsert(s) ==
  /\ Running(s, "create-post", "upsert")
  /\ LET q == inflight[s]
         row == [id |-> q.body.user_id, username |-> {}, mobile_number |-> {}]
     IN \/ /\ profiles' = IF ProfileOf(row.id) = {} THEN profiles \cup {row} ELSE profiles
           /\ CP_Validate(s, Attributed(Wrote(q, "profiles", {row}), row.id))
        \/ \E e \in DatastoreErrors :
             /\ profiles' = profiles
             /\ Reply(s, Failed(q, 400, <<"Please complete your profile setup first">>, e))
  /\ UNCHANGED <<notFeed, posts, businesses, nextId>>

\* create-post lines 61-83.
CP_Insert(s) ==
  /\ Running(s, "create-post", "insert")
  /\ nextId <= MaxRows
  /\ LET q == inflight[s]
         row == [id |-> nextId, user_id |-> q.body.user_id, content |-> OrNull(q.body.content)]
     IN \/ /\ posts' = posts \cup {row}
           /\ nextId' = nextId + 1
           /\ Reply(s, Response(Attributed(Wrote(q, "posts", {row}), row.user_id), 200, ""))
        \/ \E e \in DatastoreErrors :
             /\ UNCHANGED <<posts, nextId>>
             /\ Reply(s, Failed(q, 500, <<"Failed to create post">>, e))
  /\ UNCHANGED <<notFeed, profiles, businesses>>

\* create-business lines 21-37.
CB_Begin(s, token, body) ==
  /\ inflight[s] = Idle
  /\ LET q == Req("create-business", token, body, NoUser)
     IN IF ~HasKey(body, "user_id")
          THEN Reply(s, Response(q, 400, "User ID is required"))
        ELSE IF Falsy(body.name)
          THEN Reply(s, Response(q, 400, "Business name is required"))
        ELSE Continue(s, Goto(q, "profile"))
  /\ UNCHANGED <<notFeed, feedDb, businesses, nextId>>

\* create-business lines 40-52.
CB_Profile(s) ==
  /\ Running(s, "create-business", "profile")
  /\ LET q == inflight[s]
     IN IF MaybeSingle(ProfileOf(q.body.user_id)) = {}
          THEN Reply(s, Response(q, 400, "User not found"))
          ELSE Continue(s, Goto(q, "insert"))
  /\ UNCHANGED <<notFeed, feedDb, businesses, nextId>>

\* create-business lines 55-86.
CB_Insert(s) ==
  /\ Running(s, "create-business", "insert")
  /\ nextId <= MaxRows
  /\ LET q == inflight[s]
         row == [id |-> nextId, owner_id |-> q.body.user_id, name |-> q.body.name,
                 approval_status |-> "pending"]
     IN \/ /\ businesses' = businesses \cup {row}
           /\ nextId' = nextId + 1
           /\ Reply(s, Response(Attributed(Wrote(q, "businesses", {row}), row.owner_id),
                                200, ""))
        \/ \E e \in DatastoreErrors :
             /\ UNCHANGED <<businesses, nextId>>
             /\ Reply(s, Failed(q, 500, <<"Failed to create business: ", e>>, e))
  /\ UNCHANGED <<notFeed, feedDb>>

(***************************************************************************)
(* mobile-auth, action signup                                              *)
(***************************************************************************)
notSignup == <<now, focus, user_roles, jobsDb, businesses, admin_activity_logs,
               communityDb, posts>>

\* The ids and the session tokens the datastore and generateSessionToken
\* hand out, in the order they are asked for.
NewUserIds == <<"n1", "n2", "n3", "n4", "n5", "n6">>
NewTokens == <<"s1", "s2", "s3", "s4", "s5", "s6">>

\* username.toLowerCase(), lines 262 and 297, with the identity in its place:
\* C10 fails under it.
ToLowerCase_AsTyped(username) == username

\* username.toLowerCase(), lines 262 and 297.
ToLowerCase(username) ==
  [i \in DOMAIN username |->
     CASE username[i] = "A" -> "a"
       [] username[i] = "B" -> "b"
       [] username[i] = "N" -> "n"
       [] username[i] = "O" -> "o"
       [] OTHER -> username[i]]

\* /^[a-zA-Z0-9_]{3,30}$/, line 236.
usernameRegex(username) ==
  /\ Len(username) >= 3 /\ Len(username) <= 30
  /\ \A i \in DOMAIN username :
       username[i] \in {"a", "b", "n", "o", "A", "B", "N", "O", "0", "7", "_"}

\* The unique constraints of the datastore on user_credentials.mobile_number
\* and on profiles.username (and the primary key of profiles).
UniqueMobile(rows, row) == \A r \in rows : r.mobile_number # row.mobile_number

UniqueUsername(rows, row) == \A r \in rows : r.username # row.username /\ r.id # row.id

\* hashPassword, lines 103-109: the SHA-256 digest of the password in hex,
\* which tells any two passwords of the model apart.
hashPassword(password) == [sha256 |-> password]

\* verifyPassword, lines 111-114.
verifyPassword(password, hash) == hashPassword(password) = hash

\* lines 220-242.
SU_Begin(s, body) ==
  /\ inflight[s] = Idle
  /\ LET q == Req("mobile-auth", NoToken, body, NoUser)
     IN IF ~HasKey(body, "mobile_number") \/ ~HasKey(body, "password")
          THEN Reply(s, Response(q, 400, "Mobile number and password are required"))
        ELSE IF ~HasKey(body, "full_name") \/ ~HasKey(body, "username")
          THEN Reply(s, Response(q, 400, "Full name and username are required for signup"))
        ELSE IF ~usernameRegex(body.username)
          THEN Reply(s, Response(q, 400, "Username must be 3-30 characters"))
        ELSE Continue(s, Goto(q, "check_mobile"))
  /\ UNCHANGED <<notSignup, user_sessions, profiles, user_credentials, nextId, signedUp>>

\* lines 245-256.
SU_CheckMobile(s) ==
  /\ Running(s, "mobile-auth", "check_mobile")
  /\ LET q == inflight[s]
         existingUser == MaybeSingle({ c \in user_credentials :
                                         c.mobile_number = q.body.mobile_number })
     IN IF existingUser # {}
          THEN Reply(s, Response(q, 400, "This mobile number is already registered"))
          ELSE Continue(s, Goto(q, "check_username"))
  /\ UNCHANGED <<notSignup, user_sessions, profiles, user_credentials, nextId, signedUp>>

\* lines 259-270.
SU_CheckUsername(s) ==
  /\ Running(s, "mobile-auth", "check_username")
  /\ LET q == inflight[s]
         existingUsername == MaybeSingle({ p \in profiles :
                                             p.username = {ToLowerCase(q.body.username)} })
     IN IF existingUsername # {}
          THEN Reply(s, Response(q, 400, "This username is already taken"))
          ELSE Continue(s, Goto(q, "insert_credentials"))
  /\ UNCHANGED <<notSignup, user_sessions, profiles, user_credentials, nextId, signedUp>>

\* lines 275-290.
SU_InsertCredentials(s) ==
  /\ Running(s, "mobile-auth", "insert_credentials")
  /\ nextId <= MaxRows
  /\ LET q == inflight[s]
         row == [id |-> NewUserIds[nextId], mobile_number |-> q.body.mobile_number,
                 password_hash |-> hashPassword(q.body.password), updated_at |-> {}]
     IN IF UniqueMobile(user_credentials, row)
          THEN /\ user_credentials' = user_credentials \cup {row}
               /\ nextId' = nextId + 1
               /\ Continue(s, [Goto(Wrote(q, "user_credentials", {row}), "insert_profile")
                                 EXCEPT !.loc = [credentials |-> row, token |-> nextId]])
          ELSE /\ UNCHANGED <<user_credentials, nextId>>
               /\ Reply(s, Failed(q, 500, <<"Failed to create account">>,
                                  "duplicate key value violates unique constraint"))
  /\ UNCHANGED <<notSignup, user_sessions, profiles, signedUp>>

\* lines 293-308.
SU_InsertProfile(s) ==
  /\ Running(s, "mobile-auth", "insert_profile")
  /\ LET q == inflight[s]
         row == [id |-> q.loc.credentials.id,
                 username |-> {ToLowerCase(q.body.username)},
                 mobile_number |-> {q.body.mobile_number},
                 date_of_birth |-> IF HasKey(q.body, "date_of_birth")
                                     THEN {q.body.date_of_birth} ELSE {},
                 is_online |-> {}]
     IN IF UniqueUsername(profiles, row)
          THEN /\ profiles' = profiles \cup {row}
               /\ Continue(s, Goto(Wrote(q, "profiles", {row}), "insert_session"))
          ELSE /\ profiles' = profiles
               /\ Continue(s, Goto(q, "rollback"))
  /\ UNCHANGED <<notSignup, user_sessions, user_credentials, nextId, signedUp>>

\* lines 309-316.
SU_Rollback(s) ==
  /\ Running(s, "mobile-auth", "rollback")
  /\ LET q == inflight[s]
         hit == { c \in user_credentials : c.id = q.loc.credentials.id }
     IN /\ user_credentials' = user_credentials \ hit
        /\ Reply(s, Failed(Wrote(q, "user_credentials", hit), 500,
                           <<"Failed to create profile">>,
                           "duplicate key value violates unique constraint"))
  /\ UNCHANGED <<notSignup, user_sessions, profiles, nextId, signedUp>>

\* lines 323-327 and 396-402: the row of a new session, which expires 30
\* days later.  `verified` is no column: it records the password hash
\* against which the request that made the session was checked.
NewSession(token, credentials) ==
  [session_token |-> token,
   user_id |-> credentials.id,
   is_active |-> TRUE,
   expires_at |-> now + 30,
   verified |-> credentials.password_hash]

\* lines 319-348: the insert may fail in the datastore; the handler then
\* answers 500 and leaves the credentials and the profile where they are.
SU_InsertSession(s) ==
  /\ Running(s, "mobile-auth", "insert_session")
  /\ LET q == inflight[s]
         row == NewSession(NewTokens[q.loc.token], q.loc.credentials)
     IN \/ /\ user_sessions' = user_sessions \cup {row}
           /\ signedUp' = signedUp \cup {[user |-> row.user_id, body |-> q.body]}
           /\ Reply(s, [Response(Wrote(q, "user_sessions", {row}), 200, "")
                          EXCEPT !.user = row.user_id])
        \/ \E e \in DatastoreErrors :
             /\ UNCHANGED <<user_sessions, signedUp>>
             /\ Reply(s, Failed(q, 500, <<"Failed to create session">>, e))
  /\ UNCHANGED <<notSignup, profiles, user_credentials, nextId>>

(***************************************************************************)
(* mobile-auth, action signin, and reset-password, action reset_password.  *)
(***************************************************************************)
\* mobile-auth lines 214-219, then the branch on action.
SI_Begin(s, body) ==
  /\ inflight[s] = Idle
  /\ LET q == Req("mobile-auth", NoToken, body, NoUser)
     IN IF ~HasKey(body, "mobile_number") \/ ~HasKey(body, "password")
          THEN Reply(s, Response(q, 400, "Mobile number and password are required"))
          ELSE Continue(s, Goto(q, "signin"))
  /\ UNCHANGED <<notSignup, user_sessions, profiles, user_credentials, nextId, signedUp>>

\* lines 353-373.
SI_Credentials(s) ==
  /\ Running(s, "mobile-auth", "signin")
  /\ LET q == inflight[s]
         credentials == MaybeSingle({ c \in user_credentials :
                                        c.mobile_number = q.body.mobile_number })
     IN IF credentials = {}
             \/ ~verifyPassword(q.body.password, TheRow(credentials).password_hash)
          THEN Reply(s, Response(q, 401, "Invalid mobile number or password"))
          ELSE Continue(s, [Goto(q, "signin_profile")
                              EXCEPT !.loc = [credentials |-> TheRow(credentials)]])
  /\ UNCHANGED <<notSignup, user_sessions, profiles, user_credentials, nextId, signedUp>>

\* lines 376-386: the profile and the roles, which the response carries.
SI_Profile(s) ==
  /\ Running(s, "mobile-auth", "signin_profile")
  /\ Continue(s, Goto(inflight[s], "signin_session"))
  /\ UNCHANGED <<notSignup, user_sessions, profiles, user_credentials, nextId, signedUp>>

\* The sessions of the user if signin invalidated them, as it once did: C21
\* fails under it.
KeptSessions_Invalidated(rows, userId) ==
  { IF r.user_id = userId THEN [r EXCEPT !.is_active = FALSE] ELSE r : r \in rows }

\* lines 391-393: signin does not touch the older sessions.
KeptSessions(rows, userId) == rows

\* lines 389-410.
SI_InsertSession(s) ==
  /\ Running(s, "mobile-auth", "signin_session")
  /\ nextId <= MaxRows
  /\ LET q == inflight[s]
         row == NewSession(NewTokens[nextId], q.loc.credentials)
     IN \/ /\ user_sessions' = KeptSessions(user_sessions, row.user_id) \cup {row}
           /\ nextId' = nextId + 1
           /\ Continue(s, Goto(Wrote(q, "user_sessions", {row}), "signin_online"))
        \/ \E e \in DatastoreErrors :
             /\ UNCHANGED <<user_sessions, nextId>>
             /\ Reply(s, Failed(q, 500, <<"Failed to create session">>, e))
  /\ UNCHANGED <<notSignup, profiles, user_credentials, signedUp>>

\* lines 412-431.
SI_Online(s) ==
  /\ Running(s, "mobile-auth", "signin_online")
  /\ LET q == inflight[s]
         hit == ProfileOf(q.loc.credentials.id)
     IN /\ profiles' = (profiles \ hit) \cup { [r EXCEPT !.is_online = {TRUE}] : r \in hit }
        /\ Reply(s, [Response(Wrote(q, "profiles", hit), 200, "")
                       EXCEPT !.user = q.loc.credentials.id])
  /\ UNCHANGED <<notSignup, user_sessions, user_credentials, nextId, signedUp>>

\* date.split('T')[0], part_005 lines 147-148.
SplitT(date) ==
  LET at == { i \in DOMAIN date : date[i] = "T" }
  IN IF at = {} THEN date
     ELSE SubSeq(date, 1, (CHOOSE i \in at : \A j \in at : i <= j) - 1)

\* part_005 lines 116-130.
RP_Begin(s, body) ==
  /\ inflight[s] = Idle
  /\ LET q == Req("reset-password", NoToken, body, NoUser)
     IN IF ~HasKey(body, "mobile_number") \/ ~HasKey(body, "date_of_birth")
             \/ ~HasKey(body, "new_password")
          THEN Reply(s, Response(q, 400,
                 "Mobile number, date of birth, and new password are required"))
        ELSE IF Len(body.new_password) < 6
          THEN Reply(s, Response(q, 400, "Password must be at least 6 characters"))
        ELSE Continue(s, Goto(q, "reset"))
  /\ UNCHANGED <<notSignup, user_sessions, profiles, user_credentials, nextId, signedUp>>

\* part_005 lines 134-155.
RP_Profile(s) ==
  /\ Running(s, "reset-password", "reset")
  /\ LET q == inflight[s]
         profile == MaybeSingle({ r \in profiles :
                                    r.mobile_number = {q.body.mobile_number} })
     IN IF profile = {} \/ TheRow(profile).date_of_birth = {}
             \/ \A d \in TheRow(profile).date_of_birth :
                  SplitT(d) # SplitT(q.body.date_of_birth)
          THEN Reply(s, Response(q, 400, "Identity verification failed"))
          ELSE Continue(s, [Goto(q, "reset_password")
                              EXCEPT !.loc = [profile |-> TheRow(profile)]])
  /\ UNCHANGED <<notSignup, user_sessions, profiles, user_credentials, nextId, signedUp>>

\* part_005 lines 158-174.
RP_UpdatePassword(s) ==
  /\ Running(s, "reset-password", "reset_password")
  /\ LET q == inflight[s]
         hit == { c \in user_credentials : c.mobile_number = q.body.mobile_number }
         upd == [password_hash |-> hashPassword(q.body.new_password),
                 updated_at |-> {now}]
     IN \/ /\ user_credentials' =
                (user_credentials \ hit) \cup { ApplyUpdate(c, upd) : c \in hit }
           /\ Continue(s, Goto(Wrote(q, "user_credentials", hit), "reset_sessions"))
        \/ \E e \in DatastoreErrors :
             /\ user_credentials' = user_credentials
             /\ Reply(s, Failed(q, 500, <<"Failed to update password">>, e))
  /\ UNCHANGED <<notSignup, user_sessions, profiles, nextId, signedUp>>

\* part_005 lines 176-189.
RP_Invalidate(s) ==
  /\ Running(s, "reset-password", "reset_sessions")
  /\ LET q == inflight[s]
         hit == { r \in user_sessions : r.user_id = q.loc.profile.id }
     IN /\ user_sessions' =
             (user_sessions \ hit) \cup { [r EXCEPT !.is_active = FALSE] : r \in hit }
        /\ Reply(s, Response(Wrote(q, "user_sessions", hit), 200, ""))
  /\ UNCHANGED <<notSignup, profiles, user_credentials, nextId, signedUp>>

(***************************************************************************)
(* The specification of manage-jobs and admin-manage, one request at a     *)
(* time.                                                                    *)
(***************************************************************************)
\* Time passes.
Tick ==
  /\ now < MaxTime
  /\ now' = now + 1
  /\ resp' = NoResp
  /\ UNCHANGED <<auth, jobsDb, businesses, admin_activity_logs, communityDb, feedDb,
                 user_credentials, nextId, signedUp, inflight>>

\* The state before any request, but for the communities and the handler
\* followed.
Base ==
  /\ now = 0
  /\ user_sessions = InitSessions
  /\ user_roles = InitRoles
  /\ jobs = {}
  /\ nextJobId = 1
  /\ job_applications = {}
  /\ nextAppId = 1
  /\ businesses = {}
  /\ admin_activity_logs = {}
  /\ profiles = {}
  /\ posts = {}
  /\ user_credentials = {}
  /\ signedUp = {}
  /\ inflight = [s \in Slots |-> Idle]
  /\ resp = NoResp

Init ==
  /\ Base
  /\ focus = "jobs"
  /\ communities = {}
  /\ community_members = {}
  /\ community_permissions = {}
  /\ community_discussions = {}
  /\ nextId = 1

Next ==
  \/ ManageJobs(1)
  \/ AdminManage(1)
  \/ Tick

Spec == Init /\ [][Next]_vars

(***************************************************************************)
(* manage-jobs with two requests in flight: u1 creates a job that has      *)
(* expired, lists the jobs and reopens the job, in any interleaving of the *)
(* datastore calls.                                                        *)
(***************************************************************************)
JobsResponse(action) == resp.h = "manage-jobs" /\ resp.body.action = action

RaceRequests ==
  { <<"t1", CreateBody(JStr(<<" ", "D", " ">>), JStr(<<"x", " ">>), {0})>>,
    <<"t1", [action |-> "list"]>>,
    <<"t1", [action |-> "update", job_id |-> 1, status |-> "open"]>>,
    <<"t1", [action |-> "update", job_id |-> 1, status |-> "closed"]>> }

RaceNext ==
  \/ \E s \in Slots :
       \/ \E r \in RaceRequests : MJ_Begin(s, r[1], r[2])
       \/ MJ_ListClose(s)
       \/ MJ_ListSelect(s)
       \/ MJ_ListCounts(s)
       \/ MJ_CreateInsert(s)
       \/ MJ_UpdateCheck(s)
       \/ MJ_UpdateWrite(s)
  \/ Tick

SpecRace == Init /\ [][RaceNext]_vars

\* C3: every job in a list response whose expires_at is not null and earlier
\* than the moment the list request started is closed, in any interleaving
\* of the list with other requests.  Violated: the creator reopens the job
\* between the UPDATE that closes the expired jobs and the SELECT.
C3_ListedExpiredJobsAreClosed ==
  JobsResponse("list") =>
    \A r \in resp.jobs :
      (\E e \in r.job.expires_at : e < resp.started) => r.job.status = "closed"

(***************************************************************************)
(* Properties of manage-jobs and admin-manage, one request at a time       *)
(* (Spec).  They are read off the response: between the arrival of a       *)
(* request and its response nothing else touches the datastore.            *)
(***************************************************************************)
\* C1: a create request of an authenticated user whose title or description
\* is missing, empty or only whitespace is answered 400, and no row is added
\* to jobs.  Violated: a title that is not a string is answered 500.
C1_BlankCreateIs400 ==
  LET blank(v) == v.t \in {"undefined", "null"} \/ (v.t = "string" /\ Trim(v.s) = <<>>)
  IN (JobsResponse("create") /\ resp.user # NoUser
        /\ (blank(resp.body.title) \/ blank(resp.body.description)))
     => (resp.status = 400 /\ resp.wrote = {} /\ jobs = resp.before)

\* C2: an update request of an authenticated user who is not the creator of
\* the targeted job is answered 403, whatever fields the body carries, and
\* no job changes.
C2_UpdateByOtherIs403 ==
  (JobsResponse("update") /\ resp.user # NoUser /\ HasKey(resp.body, "job_id")
     /\ \E j \in resp.before : j.id = resp.body.job_id /\ j.creator_id # resp.user)
  => (resp.status = 403 /\ resp.wrote = {} /\ jobs = resp.before)

C2_Witness ==
  /\ JobsResponse("update") /\ resp.user = "u2" /\ resp.status = 403
  /\ HasKey(resp.body, "approval_status")
  /\ \E j \in jobs : j.id = resp.body.job_id /\ j.creator_id = "u1"

\* C4: list returns, and get answers with, a job only if the caller created
\* it or it is approved and open; a caller without a session sees only the
\* approved open jobs; get answers 404 for any other job and list omits it.
C4_OnlyVisibleJobs ==
  LET visible(j) == j.creator_id = resp.user
                      \/ (j.approval_status = "approved" /\ j.status = "open")
  IN (resp.h = "manage-jobs" /\ resp.body.action \in {"list", "get"})
     => /\ \A r \in resp.jobs : r.job \in jobs /\ visible(r.job)
        /\ resp.user = NoUser =>
             \A r \in resp.jobs : r.job.approval_status = "approved" /\ r.job.status = "open"
        /\ (resp.body.action = "get" /\ HasKey(resp.body, "job_id")) =>
             \A j \in jobs : (j.id = resp.body.job_id /\ ~visible(j)) => resp.status = 404

\* An approved job that was closed is asked for by someone else: list omits
\* it, get answers 404.
C4_Witness ==
  /\ resp.h = "manage-jobs" /\ resp.body.action \in {"list", "get"}
  /\ resp.status \in {200, 404} /\ resp.jobs = {}
  /\ \E j \in jobs : /\ j.creator_id # resp.user
                      /\ j.approval_status = "approved" /\ j.status = "closed"
                      /\ resp.body.action = "get" => resp.body.job_id = j.id

\* C8: admin-manage answers an authorized request 400, and writes nothing,
\* when the action is not list, update or delete, when the entity_type is
\* not a known one, when an update lacks entity_id or updates, or when a
\* delete lacks entity_id.  Violated:
\* these requests throw and are answered 500.
C8_AdminInvalidIs400 ==
  LET body == resp.body
      invalid == \/ body.action \notin {"list", "update", "delete"}
                 \/ ~HasKey(body, "entity_type") \/ body.entity_type \notin EntityTypes
                 \/ body.action = "update"
                      /\ (~HasKey(body, "entity_id") \/ ~HasKey(body, "updates"))
                 \/ body.action = "delete" /\ ~HasKey(body, "entity_id")
  IN (resp.h = "admin-manage" /\ (\E r \in user_roles : r.user_id = resp.user) /\ invalid)
     => (resp.status = 400 /\ resp.wrote = {})

\* C9: a get request whose job_id matches no job is answered 404.  Violated:
\* .single() reports the missing row as an error, which is thrown: 500.
C9_GetMissingIs404 ==
  (JobsResponse("get") /\ HasKey(resp.body, "job_id")
     /\ ~\E j \in jobs : j.id = resp.body.job_id)
  => resp.status = 404

(***************************************************************************)
(* create-post and create-business, one request at a time.                 *)
(***************************************************************************)
\* The requests made to create-post and create-business: with and without
\* the session token of u1, naming u1, u2 or nobody as the user.
PostBodies ==
  { [content |-> JStr(<<"h", "i">>)] }
    \cup { [user_id |-> u, content |-> c] : u \in {"u1", "u2"}, c \in {Undef, JStr(<<"h", "i">>)} }

BusinessBodies ==
  { [name |-> JStr(<<"S">>)] }
    \cup { [user_id |-> u, name |-> n] : u \in {"u1", "u2"}, n \in {Undef, JStr(<<"S">>)} }

OpenNext ==
  \/ \E token \in {NoToken, "t1"}, body \in PostBodies : CP_Begin(1, token, body)
  \/ CP_Profile(1)
  \/ CP_Upsert(1)
  \/ CP_Insert(1)
  \/ \E token \in {NoToken, "t1"}, body \in BusinessBodies : CB_Begin(1, token, body)
  \/ CB_Profile(1)
  \/ CB_Insert(1)
  \/ Tick

SpecOpen == Init /\ [][OpenNext]_vars

\* C5: no request that lacks a valid session token causes a row to be
\* inserted, updated or deleted, and the user a write is attributed to is the
\* user the session token resolves to.  Violated: create-post and
\* create-business look no session up and take user_id from the body.
C5_WritesFollowASession ==
  resp.h # "none" =>
    /\ resp.wrote # {} => resp.token # NoToken /\ ValidateSession(resp.token) # NoUser
    /\ \A u \in resp.attributed : u = ValidateSession(resp.token)

\* C7: when a datastore call fails the response has status 500 and its
\* error text never contains the message of the underlying error.  Violated:
\* create-business appends businessError.message to its text.
C7_FailureIsGeneric500 ==
  (resp.h # "none" /\ resp.cause \in DatastoreErrors) =>
    /\ resp.status = 500
    /\ \A i \in DOMAIN resp.error : resp.error[i] # resp.cause

(***************************************************************************)
(* manage-jobs and manage-community, one request at a time, asked with     *)
(* every kind of session token.  A behaviour follows the requests made to  *)
(* one of the two handlers (focus): they share no table that they write.   *)
(* The community of u1, its members and two discussions exist beforehand.  *)
(***************************************************************************)
SessionInit ==
  /\ Base
  /\ focus \in {"jobs", "community"}
  /\ communities = { [id |-> 1, name |-> JStr(<<"C">>), created_by |-> "u1",
                      approval_status |-> "approved", updated_at |-> {}] }
  /\ community_members = { [community_id |-> 1, user_id |-> "u1", role |-> "admin"],
                           [community_id |-> 1, user_id |-> "u2", role |-> "member"] }
  /\ community_permissions = {}
  /\ community_discussions = { [id |-> 1, user_id |-> "u2", community_id |-> 1],
                               [id |-> 2, user_id |-> "u1", community_id |-> 1] }
  /\ nextId = 2

SessionJobBodies ==
  { [action |-> "my_jobs"],
    CreateBody(JStr(<<" ", "D", " ">>), JStr(<<"x", " ">>), {}),
    [action |-> "update", job_id |-> 1, status |-> "closed"],
    [action |-> "delete", job_id |-> 1],
    [action |-> "apply", job_id |-> 1, message |-> JStr(<<"h", "i", " ">>)],
    [action |-> "reply", application_id |-> 1, reply_type |-> "shortlisted"],
    [action |-> "my_applications"],
    [action |-> "check_business_owner"] }

\* Every action that needs a user is asked for without a token, with an
\* expiring session and by u1 and u2; the others by nobody, u1 and the
\* administrator.
SessionJobRequests ==
  { <<token, body>> : token \in {NoToken, "te", "t1", "t2"}, body \in SessionJobBodies }
    \cup { <<token, body>> :
             token \in {NoToken, "t1", "ta"},
             body \in { [action |-> "list"], [action |-> "get", job_id |-> 1],
                        [action |-> "get_all_applications"] } }
    \cup { <<"t2", body>> :
             body \in { [action |-> "apply", job_id |-> 1, message |-> JNum(5)],
                        [action |-> "reply", application_id |-> 1, reply_type |-> "later"],
                        [action |-> "apply"], [action |-> "reply"] } }
    \cup { <<token, [action |-> "delete", job_id |-> 1]>> : token \in {"t0", "tx"} }

SessionNext ==
  \/ \E r \in SessionJobRequests : focus = "jobs" /\ MJ_Begin(1, r[1], r[2])
  \/ JobSteps(1)
  \/ JobApplications(1)
  \/ focus = "jobs" /\ AM_Begin(1, "ta", AdminApprove(1, [approval_status |-> "approved"]))
  \/ AM_Session(1)
  \/ AM_Roles(1)
  \/ AM_Update(1)
  \/ AM_UpdateLog(1)
  \/ \E r \in CommunityRequests : focus = "community" /\ MC_Begin(1, r[1], r[2])
  \/ MCSteps(1)
  \/ Tick

SpecSession == SessionInit /\ [][SessionNext]_vars

\* C6: in manage-jobs the actions my_jobs, create, update, delete, apply,
\* reply, my_applications and check_business_owner, and in manage-community
\* every action, answer 401 and write nothing when the request carries no
\* session token or its token has no active, unexpired session.
C6_NoSessionIs401 ==
  LET listed == \/ resp.h = "manage-community"
                \/ /\ resp.h = "manage-jobs"
                   /\ resp.body.action \in
                        {"my_jobs", "create", "update", "delete", "apply", "reply",
                         "my_applications", "check_business_owner"}
      valid == \E r \in user_sessions :
                 /\ r.session_token = resp.token
                 /\ r.is_active
                 /\ r.expires_at > resp.started
  IN (listed /\ (resp.token = NoToken \/ ~valid))
     => (resp.status = 401 /\ resp.wrote = {} /\ jobs = resp.before)

\* The session "te" has expired when u2 asks manage-jobs to apply to a job
\* that is open for applications.
C6_Witness ==
  /\ JobsResponse("apply") /\ resp.token = "te" /\ resp.status = 401
  /\ \E j \in jobs : j.id = resp.body.job_id /\ j.status = "open"
                     /\ j.approval_status = "approved"

(***************************************************************************)
(* mobile-auth signup with two requests in flight.                         *)
(***************************************************************************)
\* The signups requested: two mobile numbers, and user names that differ
\* only in case, differ altogether, or do not match the pattern.
SignupBody(m, u) ==
  [action |-> "signup", mobile_number |-> m, password |-> <<"p", "w">>, full_name |-> "Name",
   username |-> u]

SignupBodies ==
  { SignupBody(m, u) : m \in {"m1", "m2"},
                       u \in {<<"B", "o", "b">>, <<"b", "o", "b">>, <<"a", "n", "n">>} }
    \cup { SignupBody("m1", <<"b", "o">>), SignupBody("m1", <<"b", "o", " ">>),
           [action |-> "signup", mobile_number |-> "m1", password |-> <<"p", "w">>],
           [action |-> "signup", password |-> <<"p", "w">>] }

SignupNext ==
  \/ \E s \in Slots :
       \/ \E body \in SignupBodies : SU_Begin(s, body)
       \/ SU_CheckMobile(s)
       \/ SU_CheckUsername(s)
       \/ SU_InsertCredentials(s)
       \/ SU_InsertProfile(s)
       \/ SU_Rollback(s)
       \/ SU_InsertSession(s)
  \/ Tick

SpecSignup == Init /\ [][SignupNext]_vars

\* C10: after any interleaving of signups there is at most one
\* user_credentials row per mobile_number and at most one profile per
\* lower-cased username, and of the signups for one mobile number or one
\* username at most one is answered with success.
C10_SignupIsUnique ==
  LET lower(u) == [i \in DOMAIN u |->
                     CASE u[i] = "A" -> "a" [] u[i] = "B" -> "b" [] u[i] = "N" -> "n"
                       [] u[i] = "O" -> "o" [] OTHER -> u[i]]
      names(p) == { lower(u) : u \in p.username }
  IN /\ \A a, b \in user_credentials : a.mobile_number = b.mobile_number => a = b
     /\ \A p, r \in profiles : names(p) \cap names(r) # {} => p = r
     /\ \A x, y \in signedUp :
          (\/ x.body.mobile_number = y.body.mobile_number
           \/ lower(x.body.username) = lower(y.body.username)) => x = y

\* Two signups raced for one user name: one was answered with success, the
\* other lost at the insert of its profile and took its credentials back.
C10_Witness ==
  /\ resp.h = "mobile-auth" /\ resp.status = 500
  /\ resp.wrote = {"user_credentials"}
  /\ \E x \in signedUp : x.body.mobile_number # resp.body.mobile_number

\* C12: a job that create adds is open and awaits approval; its
\* approval_status changes only in the UPDATE of an admin-manage update, so
\* nothing its creator sends to manage-jobs changes it; and list and get
\* return to a user who is not its creator only jobs that are approved.
C12_PendingUntilApproved ==
  [][ /\ \A k \in jobs' :
           (\A j \in jobs : j.id # k.id) =>
              k.status = "open" /\ k.approval_status = "pending"
      /\ \A j \in jobs, k \in jobs' :
           (j.id = k.id /\ j.approval_status # k.approval_status) =>
              \E s \in Slots : Running(s, "admin-manage", "update")
      /\ (resp'.h = "manage-jobs" /\ resp'.status = 200
            /\ resp'.body.action \in {"list", "get"}) =>
           \A x \in resp'.jobs :
             x.job.creator_id # resp'.user => x.job.approval_status = "approved"
    ]_vars

\* The creator of a job that awaits approval sent an update naming
\* approval_status: it was answered with success and the job still awaits
\* approval.
C12_Witness ==
  /\ JobsResponse("update") /\ resp.status = 200
  /\ HasKey(resp.body, "approval_status")
  /\ \E j \in jobs : j.id = resp.body.job_id /\ j.approval_status = "pending"

\* C13: no request whose action is one the pages send is answered 400
\* "Invalid action".  Violated: the job page sends bulk_reply, for which the
\* switch has no case.
C13_FrontendActionsExist ==
  (resp.h = "manage-jobs" /\ resp.body.action \in FrontendActions) =>
    ~(resp.status = 400 /\ resp.error = <<"Invalid action">>)

C23_FailedSignupLeavesNothing ==
  (/\ resp.h = "mobile-auth" /\ resp.body.action = "signup"
   /\ resp.status # 200
   /\ "user_credentials" \in resp.wrote) =>
     /\ \A c \in user_credentials :
          c.id # resp.obs.credentials.id /\ c.mobile_number # resp.body.mobile_number
     /\ \A r \in profiles : r.id # resp.obs.credentials.id

\* C24: when create of manage-community is answered with success,
\* community_members has the row that makes the creator an admin of the new
\* community.  Violated: a failure of that insert is logged and the answer
\* is success all the same.
C24_CreatorIsAdminMember ==
  (/\ resp.h = "manage-community" /\ resp.body.action = "create"
   /\ resp.status = 200) =>
     \E m \in community_members :
       /\ m.community_id = resp.obs.community.id
       /\ m.user_id = resp.user
       /\ m.role = "admin"

(***************************************************************************)
(* The columns of the jobs that updates write.  Two jobs exist, made by    *)
(* create some time ago: job 1 of u1 awaits approval, job 2 of u2 was      *)
(* approved.  Their creators and the administrator update them, one        *)
(* request at a time.                                                      *)
(***************************************************************************)
\* The state in which the jobs `js` and the applications `apps` exist at
\* time t and nothing else has happened.
Seeded(js, apps, t) ==
  /\ now = t
  /\ focus = "jobs"
  /\ user_sessions = InitSessions
  /\ user_roles = InitRoles
  /\ jobs = js
  /\ nextJobId = Cardinality(js) + 1
  /\ job_applications = apps
  /\ nextAppId = Cardinality(apps) + 1
  /\ businesses = {}
  /\ admin_activity_logs = {}
  /\ profiles = {}
  /\ posts = {}
  /\ communities = {}
  /\ community_members = {}
  /\ community_permissions = {}
  /\ community_discussions = {}
  /\ user_credentials = {}
  /\ nextId = 1
  /\ signedUp = {}
  /\ inflight = [s \in Slots |-> Idle]
  /\ resp = NoResp

\* The job that create made at time 0 for userId, with the approval_status
\* an administrator gave it since.
SeedJob(id, userId, approval, max, expires) ==
  [NewJob(id, userId,
          CreateBody(JStr(<<"D">>), JStr(<<"x">>), expires) @@ [max_applications |-> max])
     EXCEPT !.approval_status = approval, !.created_at = 0, !.updated_at = {0}]

FieldsInit ==
  Seeded({ SeedJob(1, "u1", "pending", {}, {}), SeedJob(MaxRows, "u2", "approved", {}, {}) },
         {}, 1)

\* What the creators send: a new title, and a body that names columns an
\* update must not write.
FieldsPatches ==
  { [title |-> JStr(<<"E">>)],
    [status |-> "closed", approval_status |-> "approved", creator_id |-> "u3",
     id |-> MaxRows, created_at |-> 1] }

FieldsRequests ==
  { <<token, p @@ [action |-> "update", job_id |-> j]>> :
      token \in {"t1", "t2"}, p \in FieldsPatches, j \in {1, MaxRows} }

\* What the administrator sends: the moderation decisions and an updates
\* object of its own making.
FieldsAdminRequests ==
  { <<"ta", AdminApprove(1, [approval_status |-> a])>> :
      a \in {"approved", "rejected", "archived"} }

FieldsNext ==
  \/ \E r \in FieldsRequests : MJ_Begin(1, r[1], r[2])
  \/ MJ_UpdateCheck(1)
  \/ MJ_UpdateWrite(1)
  \/ \E r \in FieldsAdminRequests : AM_Begin(1, r[1], r[2])
  \/ AM_Session(1)
  \/ AM_Roles(1)
  \/ AM_Update(1)
  \/ AM_UpdateLog(1)

SpecFields == FieldsInit /\ [][FieldsNext]_vars

\* C11: in every reachable state the approval_status of every job, community
\* and business is one of pending, approved and rejected, whatever the
\* creators did and whatever updates object admin-manage update was sent.
\* Violated: admin-manage update writes the updates object as it came into a
\* plain text column.
C11_ApprovalIsTriState ==
  \A row \in jobs \cup communities \cup businesses :
    row.approval_status \in {"pending", "approved", "rejected"}

\* C19: a successful manage-jobs update leaves id, creator_id,
\* approval_status and created_at of the targeted job as they were, leaves
\* every other job as it was, and neither adds nor removes a job.
C19_UpdateKeepsTheRest ==
  (JobsResponse("update") /\ resp.status = 200) =>
    /\ Cardinality(jobs) = Cardinality(resp.before)
    /\ \A j \in resp.before :
         \E k \in jobs :
           /\ k.id = j.id
           /\ k.creator_id = j.creator_id
           /\ k.approval_status = j.approval_status
           /\ k.created_at = j.created_at
           /\ j.id # resp.body.job_id => k = j
           /\ \A c \in DOMAIN j \ (allowedFields \cup {"updated_at"}) : k[c] = j[c]

\* The creator of a job awaiting approval sent an update that names
\* creator_id, approval_status, id and created_at: the job was closed and
\* its updated_at advanced.
C19_Witness ==
  /\ JobsResponse("update") /\ resp.status = 200
  /\ HasKey(resp.body, "creator_id")
  /\ \E j \in resp.before, k \in jobs :
       /\ j.id = resp.body.job_id /\ k.id = j.id
       /\ j.status = "open" /\ k.status = "closed"
       /\ j.updated_at # k.updated_at
       /\ k.approval_status = "pending"

(***************************************************************************)
(* Applications, with two requests in flight.  Job 1 of u1 was approved,   *)
(* takes one application and expired at time 0; no list has been asked for *)
(* since, so it is still open.  u2 and u3 apply while u1 closes or deletes *)
(* the job and the administrator rejects or deletes it, in any             *)
(* interleaving of the datastore calls.                                    *)
(***************************************************************************)
ApplyInit == Seeded({ SeedJob(1, "u1", "approved", {1}, {0}) }, {}, 1)

ApplyRequests ==
  { <<token, [action |-> "apply", job_id |-> 1, message |-> JStr(<<"h", "i">>)]>> :
      token \in {"t2", "t3"} }
    \cup { <<"t1", [action |-> "update", job_id |-> 1, status |-> "closed"]>>,
           <<"t1", [action |-> "delete", job_id |-> 1]>> }

ApplyNext ==
  \E s \in Slots :
    \/ \E r \in ApplyRequests : MJ_Begin(s, r[1], r[2])
    \/ AM_Begin(s, "ta", AdminApprove(1, [approval_status |-> "rejected"]))
    \/ AM_Begin(s, "ta", [action |-> "delete", entity_type |-> "jobs", entity_id |-> 1])
    \/ AM_Session(s)
    \/ AM_Roles(s)
    \/ AM_Update(s)
    \/ AM_UpdateLog(s)
    \/ AM_DeleteApplications(s)
    \/ AM_DeleteRow(s)
    \/ AM_DeleteLog(s)
    \/ MJ_ApplyJob(s)
    \/ MJ_ApplyExisting(s)
    \/ MJ_ApplyInsert(s)
    \/ MJ_UpdateCheck(s)
    \/ MJ_UpdateWrite(s)
    \/ MJ_DeleteCheck(s)
    \/ MJ_DeleteApplications(s)
    \/ MJ_DeleteJob(s)

SpecApply == ApplyInit /\ [][ApplyNext]_vars

\* C15: in every reachable state a job whose max_applications is not null
\* has at most that many job_applications rows.  Violated: apply never reads
\* max_applications.
C15_WithinMaxApplications ==
  \A j \in jobs : \A m \in j.max_applications : Cardinality(References(j.id)) <= m

\* C16: in every reachable state job_applications holds at most one row per
\* job and applicant.  Violated: two applies of one user both find no
\* existing row and both insert.
C16_OneApplicationPerApplicant ==
  \A a, b \in job_applications :
    (a.job_id = b.job_id /\ a.applicant_id = b.applicant_id) => a = b

\* C17: every step that inserts an application inserts it for a job that is,
\* at that moment, open, approved and not the applicant's own.  Violated:
\* the creator closes the job between the check and the insert of an apply.
C17_AppliedToOpenJobs ==
  [][ \A a \in job_applications' \ job_applications :
        \E j \in jobs :
          /\ j.id = a.job_id
          /\ j.status = "open"
          /\ j.approval_status = "approved"
          /\ j.creator_id # a.applicant_id
    ]_vars

\* C18: an apply for a job whose expires_at is not null and earlier than the
\* time of the request is answered 400 and inserts nothing.  Violated: apply
\* reads status and approval_status only, and an expired job stays open
\* until a list closes it.
C18_ExpiredJobRefusesApply ==
  (/\ JobsResponse("apply")
   /\ resp.user # NoUser
   /\ \E j \in resp.before : j.id = resp.body.job_id /\ Expired(j, resp.started)) =>
     (resp.status = 400 /\ resp.wrote = {})

\* C20: no application row references a job that is not there; after a
\* delete of manage-jobs or admin-manage answered with success none
\* references the deleted job; a delete answered with an error has deleted
\* no application.  Violated: an apply
\* inserts between the two DELETEs, the job's DELETE is refused, and the
\* applications deleted before it are gone.
C20_DeleteLeavesNoApplications ==
  /\ \A a \in job_applications : \E j \in jobs : j.id = a.job_id
  /\ JobsResponse("delete") =>
       /\ resp.status = 200 => References(resp.body.job_id) = {}
       /\ resp.status # 200 => "job_applications" \notin resp.wrote
  /\ (resp.h = "admin-manage" /\ resp.body.action = "delete") =>
       /\ resp.status = 200 => References(resp.body.entity_id) = {}
       /\ resp.status # 200 => "job_applications" \notin resp.wrote

(***************************************************************************)
(* Signing in and resetting the password, with two requests in flight.     *)
(* One account exists: the signup of m1 at time 0 made the credentials,    *)
(* the profile and the session s1 of n1.                                   *)
(***************************************************************************)
OldPassword == <<"p", "w">>

NewPassword == <<"n", "e", "w", "p", "w", "1">>

AuthInit ==
  /\ now = 0
  /\ focus = "jobs"
  /\ user_credentials =
       { [id |-> NewUserIds[1], mobile_number |-> "m1",
          password_hash |-> hashPassword(OldPassword), updated_at |-> {}] }
  /\ profiles =
       { [id |-> NewUserIds[1], username |-> {<<"b", "o", "b">>},
          mobile_number |-> {"m1"}, date_of_birth |-> {<<"9">>}, is_online |-> {}] }
  /\ user_sessions = { NewSession(NewTokens[1], TheRow(user_credentials)) }
  /\ nextId = 2
  /\ signedUp = {}
  /\ user_roles = InitRoles
  /\ jobs = {}
  /\ nextJobId = 1
  /\ job_applications = {}
  /\ nextAppId = 1
  /\ businesses = {}
  /\ admin_activity_logs = {}
  /\ posts = {}
  /\ communities = {}
  /\ community_members = {}
  /\ community_permissions = {}
  /\ community_discussions = {}
  /\ inflight = [s \in Slots |-> Idle]
  /\ resp = NoResp

SigninBodies ==
  { [action |-> "signin", mobile_number |-> m, password |-> pw] :
      m \in {"m1", "m2"}, pw \in {OldPassword, NewPassword} }
    \cup { [action |-> "signin", mobile_number |-> "m1"] }

ResetBody(m, d, pw) ==
  [action |-> "reset_password", mobile_number |-> m, date_of_birth |-> d,
   new_password |-> pw]

ResetBodies ==
  { ResetBody("m1", <<"9">>, NewPassword), ResetBody("m1", <<"9", "T", "0">>, NewPassword),
    ResetBody("m1", <<"8">>, NewPassword), ResetBody("m2", <<"9">>, NewPassword),
    ResetBody("m1", <<"9">>, <<"n", "e", "w">>),
    [action |-> "reset_password", mobile_number |-> "m1"] }

AuthNext ==
  \/ \E s \in Slots :
       \/ \E body \in SigninBodies : SI_Begin(s, body)
       \/ SI_Credentials(s)
       \/ SI_Profile(s)
       \/ SI_InsertSession(s)
       \/ SI_Online(s)
       \/ \E body \in ResetBodies : RP_Begin(s, body)
       \/ RP_Profile(s)
       \/ RP_UpdatePassword(s)
       \/ RP_Invalidate(s)
  \/ Tick

SpecAuth == AuthInit /\ [][AuthNext]_vars

\* C21: every step of a signin leaves the session rows that exist as they
\* are; the step that creates the session adds exactly one row, of the user
\* who signed in, active and expiring 30 days later.
C21_SigninKeepsSessions ==
  [][ \A s \in Slots :
        (/\ inflight[s].h = "mobile-auth" /\ inflight[s].body.action = "signin"
         /\ (inflight'[s].h # "mobile-auth" \/ inflight'[s].pc # inflight[s].pc)) =>
          /\ user_sessions \subseteq user_sessions'
          /\ IF inflight'[s].h = "mobile-auth" /\ inflight'[s].pc = "signin_online"
               THEN /\ Cardinality(user_sessions' \ user_sessions) = 1
                    /\ \A r \in user_sessions' \ user_sessions :
                         /\ r.user_id = inflight[s].loc.credentials.id
                         /\ r.is_active
                         /\ r.expires_at = now + 30
               ELSE user_sessions' = user_sessions
    ]_vars

\* n1 signed in again: the answer is a success, and the session s1 of the
\* signup is still active beside the new one.
C21_Witness ==
  /\ resp.h = "mobile-auth" /\ resp.body.action = "signin" /\ resp.status = 200
  /\ \E r, n \in user_sessions :
       /\ r.user_id = resp.user /\ n.user_id = resp.user
       /\ r.session_token = NewTokens[1] /\ n.session_token # NewTokens[1]
       /\ r.is_active /\ n.is_active

\* C22: once the password of a user was reset and the reset has invalidated
\* the sessions, no active session of the user was made by a signin that
\* was checked against another password than the one now stored.  Violated:
\* a signin that verified the old password before the reset inserts its
\* session after the reset's UPDATE of user_sessions.
C22_ResetInvalidatesSessions ==
  \A c \in user_credentials :
    (/\ c.updated_at # {}
     /\ \A s \in Slots : ~(/\ inflight[s].h = "reset-password"
                           /\ inflight[s].pc = "reset_sessions"
                           /\ inflight[s].body.mobile_number = c.mobile_number)) =>
      \A r \in user_sessions :
        (r.user_id = c.id /\ r.is_active) => r.verified = c.password_hash

(***************************************************************************)
(* The members of a community.  Community 1 of u1 has the members u1, u2   *)
(* and u3; u1 grants and revokes u2's permission manage_members, and each  *)
(* of the three asks to remove each of the three, from community 1 and     *)
(* from a community that does not exist, one request at a time.            *)
(***************************************************************************)
MembersInit ==
  /\ Base
  /\ focus = "community"
  /\ communities = { [id |-> 1, name |-> JStr(<<"C">>), created_by |-> "u1",
                      approval_status |-> "approved", updated_at |-> {}] }
  /\ community_members = { [community_id |-> 1, user_id |-> "u1", role |-> "admin"],
                           [community_id |-> 1, user_id |-> "u2", role |-> "member"],
                           [community_id |-> 1, user_id |-> "u3", role |-> "member"] }
  /\ community_permissions = {}
  /\ community_discussions = {}
  /\ nextId = 2

MembersRequests ==
  { <<token, [action |-> "remove_member", community_id |-> c, member_user_id |-> m]>> :
      token \in {"t1", "t2", "t3"}, c \in {1, MaxRows}, m \in {"u1", "u2", "u3"} }
    \cup { <<"t1", [action |-> a, community_id |-> 1, target_user_id |-> "u2",
                    permission |-> "manage_members"]>> :
             a \in {"grant_permission", "revoke_permission"} }
    \cup { <<NoToken, [action |-> "remove_member", community_id |-> 1,
                       member_user_id |-> "u2"]>>,
           <<"t1", [action |-> "remove_member", community_id |-> 1]>> }

MembersNext ==
  \/ \E r \in MembersRequests : MC_Begin(1, r[1], r[2])
  \/ MC_RemoveCheck(1)
  \/ MC_RemovePermission(1)
  \/ MC_RemoveWrite(1)
  \/ MC_CreatorCheck(1)
  \/ MC_GrantMember(1)
  \/ MC_GrantExisting(1)
  \/ MC_GrantInsert(1)
  \/ MC_RevokeWrite(1)

SpecMembers == MembersInit /\ [][MembersNext]_vars

\* The caller of the answered request r may remove the member it names.
MayRemove(r) ==
  /\ HasKey(r.body, "community_id") /\ HasKey(r.body, "member_user_id")
  /\ \/ CreatedBy(CommunityOf(r.body.community_id), r.user)
     \/ HasPermission(r.body.community_id, r.user, "manage_members")
  /\ ~CreatedBy(CommunityOf(r.body.community_id), r.body.member_user_id)
  /\ r.body.member_user_id # r.user

\* C25: a step deletes memberships only as the successful answer to a
\* remove_member whose caller created the community or holds manage_members
\* for it, and the rows deleted are those of the member named, who is
\* neither the creator nor the caller; every other remove_member of a
\* signed-in caller is answered 400 or 403 and leaves community_members as
\* it was.
C25_RemoveMemberIsGuarded ==
  [][LET removed == community_members \ community_members'
         r == resp'
         removes == /\ r.h = "manage-community" /\ r.body.action = "remove_member"
                    /\ r.user # NoUser
     IN /\ removed # {} =>
             /\ removes /\ r.status = 200 /\ MayRemove(r)
             /\ \A m \in removed :
                  /\ m.community_id = r.body.community_id
                  /\ m.user_id = r.body.member_user_id
                  /\ m.user_id # r.user
                  /\ ~CreatedBy(CommunityOf(m.community_id), m.user_id)
        /\ (removes /\ ~(r.status = 200 /\ MayRemove(r))) =>
             /\ r.status \in {400, 403}
             /\ r.wrote = {}
             /\ community_members' = community_members]_vars

\* u2, who holds manage_members and did not create the community, removed
\* the member u3.
C25_Witness ==
  /\ resp.h = "manage-community" /\ resp.body.action = "remove_member"
  /\ resp.status = 200 /\ resp.user = "u2"
  /\ resp.wrote = {"community_members"}
  /\ \A m \in community_members : m.user_id # "u3"

====
